---- MODULE Spec2Model ----
(***************************************************************************)
(* A model of the Lox tree-walking interpreter of this repository: the     *)
(* scanner (scanner.rs), the parser (parser.rs), the resolver              *)
(* (resolver.rs), the environment chain (env.rs), the evaluator            *)
(* (interpreter.rs) with its callables, classes and instances              *)
(* (loxcallables.rs, class.rs, instance.rs) and the driver (main.rs).      *)
(*                                                                         *)
(* The recursive functions of the source are RECURSIVE operators that      *)
(* thread the state they mutate.  Reference-counted shared cells           *)
(* (Rc<RefCell<..>>) are indices into heaps: envs for Environment frames,  *)
(* fields for the field maps of instances.  Expression identity (the       *)
(* address of an Rc<Expr>) is the id field of an expression node.          *)
(***************************************************************************)
EXTENDS Integers, Sequences, FiniteSets, TLC

VARIABLES
    pc,          \* position of the driver in Lox::run
    source,      \* the source string handed to Lox::run
    scanner,     \* the Scanner that Lox::run builds for the source
    tokens,      \* Scanner::scan_tokens' result
    scan_error,  \* Scanner::has_error
    parser,      \* the Parser that Lox::run builds for the tokens
    stmts,       \* Parser::parse's result, the statement list
    parse_error, \* Parser::has_error
    res_error,   \* Resolver::has_error
    interp,      \* the Interpreter, with the heaps its Rc cells live in
    next_stmt,   \* index of the statement Interpreter::interpret runs next
    result,      \* outcome of Interpreter::interpret so far
    code         \* Lox::run's return value (-1: not returned)

vars == <<pc, source, scanner, tokens, scan_error, parser, stmts, parse_error,
          res_error, interp, next_stmt, result, code>>

----------------------------------------------------------------------------
(* Maps (HashMap<String, _>) are functions with a finite set of strings as *)
(* domain.                                                                 *)

EmptyMap == [x \in {} |-> TRUE]

Put(m, k, v) == [x \in (DOMAIN m) \cup {k} |-> IF x = k THEN v ELSE m[x]]

Has(m, k) == k \in DOMAIN m

Max(a, b) == IF a >= b THEN a ELSE b

----------------------------------------------------------------------------
(* Values (expr.rs).  A Number is the decimal m / 10^e, kept normalised;   *)
(* e = -1 marks the non-finite results of a division by zero (m is the     *)
(* sign, 0 for NaN).                                                       *)

\* Fractional decimal digits kept by a division that does not come out even.
PrecisionDigits == 3

RECURSIVE Pow10(_)
Pow10(n) == IF n <= 0 THEN 1 ELSE 10 * Pow10(n - 1)

RECURSIVE Norm(_, _)
Norm(m, e) == IF e > 0 /\ m % 10 = 0 THEN Norm(m \div 10, e - 1)
              ELSE [t |-> "Number", m |-> m, e |-> e]

NilV == [t |-> "Nil"]
BoolV(b) == [t |-> "Bool", b |-> b]
NumberV(m, e) == Norm(m, e)
StringV(s) == [t |-> "String", s |-> s]
CallableV(f) == [t |-> "Callable", fn |-> f]
ClassV(c) == [t |-> "Class", class |-> c]
InstanceV(c, f) == [t |-> "Instance", class |-> c, fields |-> f]

NaN == [t |-> "Number", m |-> 0, e |-> -1]
Inf(sign) == [t |-> "Number", m |-> sign, e |-> -1]
Finite(n) == n.e >= 0
Sign(m) == IF m > 0 THEN 1 ELSE IF m < 0 THEN -1 ELSE 0

NumNeg(n) == [t |-> "Number", m |-> -n.m, e |-> n.e]

NumAdd(l, r) ==
    IF Finite(l) /\ Finite(r)
    THEN LET E == Max(l.e, r.e)
         IN NumberV(l.m * Pow10(E - l.e) + r.m * Pow10(E - r.e), E)
    ELSE IF Finite(l) THEN r
    ELSE IF Finite(r) \/ l.m = r.m THEN l
    ELSE NaN

NumSub(l, r) == NumAdd(l, NumNeg(r))

NumMul(l, r) ==
    IF Finite(l) /\ Finite(r) THEN NumberV(l.m * r.m, l.e + r.e)
    ELSE IF l.m = 0 \/ r.m = 0 THEN NaN
    ELSE Inf(Sign(l.m) * Sign(r.m))

NumDiv(l, r) ==
    IF Finite(l) /\ Finite(r)
    THEN IF r.m = 0 THEN (IF l.m = 0 THEN NaN ELSE Inf(Sign(l.m)))
         ELSE LET num == l.m * Pow10(r.e) * Pow10(PrecisionDigits)
                  den == r.m * Pow10(l.e)
              IN NumberV(Sign(num) * Sign(den) *
                         ((Sign(num) * num) \div (Sign(den) * den)),
                         PrecisionDigits)
    ELSE IF Finite(l) THEN NumberV(0, 0)
    ELSE IF Finite(r) /\ l.m # 0
         THEN Inf(l.m * (IF r.m < 0 THEN -1 ELSE 1))
    ELSE NaN

\* l < r on f64: false as soon as one side is NaN
NumLess(l, r) ==
    IF Finite(l) /\ Finite(r)
    THEN LET E == Max(l.e, r.e)
         IN l.m * Pow10(E - l.e) < r.m * Pow10(E - r.e)
    ELSE IF (~Finite(l) /\ l.m = 0) \/ (~Finite(r) /\ r.m = 0) THEN FALSE
    ELSE IF Finite(l) THEN r.m > 0
    ELSE IF Finite(r) THEN l.m < 0
    ELSE l.m < r.m

NumEq(l, r) == IF l.e = -1 /\ l.m = 0 THEN FALSE ELSE l.m = r.m /\ l.e = r.e

NumLessEq(l, r) == NumLess(l, r) \/ NumEq(l, r)

RECURSIVE ZeroPad(_, _)
ZeroPad(s, n) == IF Len(s) >= n THEN s ELSE ZeroPad("0" \o s, n)

\* Display for f64: an integral value prints without a fraction
NumDisplay(n) ==
    IF ~Finite(n) THEN (IF n.m = 0 THEN "NaN" ELSE IF n.m > 0 THEN "inf" ELSE "-inf")
    ELSE IF n.e = 0 THEN ToString(n.m)
    ELSE LET a == Sign(n.m) * n.m
         IN (IF n.m < 0 THEN "-" ELSE "")
            \o ToString(a \div Pow10(n.e)) \o "."
            \o ZeroPad(ToString(a % Pow10(n.e)), n.e)

is_truthy(value) ==
    CASE value.t = "Nil" -> FALSE
      [] value.t = "Bool" -> value.b
      [] OTHER -> TRUE

\* Display for Native and Function (loxcallables.rs)
CallableDisplay(f) == IF f.native THEN "<native fn>" ELSE "<fn " \o f.id.lexeme \o ">"

\* Display for Value
Display(v) ==
    CASE v.t = "Bool" -> IF v.b THEN "true" ELSE "false"
      [] v.t = "Number" -> NumDisplay(v)
      [] v.t = "String" -> v.s
      [] v.t = "Nil" -> "nil"
      [] v.t = "Callable" -> CallableDisplay(v.fn)
      [] v.t = "Class" -> v.class.name
      [] v.t = "Instance" -> v.class.name \o " instance"

\* an eq that compares instances, classes and functions by identity
ValueEq_identity(l, r) ==
    CASE l.t = "Number" /\ r.t = "Number" -> NumEq(l, r)
      [] OTHER -> l = r

\* Value::eq
ValueEq(l, r) ==
    CASE l.t = "Bool" /\ r.t = "Bool" -> l.b = r.b
      [] l.t = "Number" /\ r.t = "Number" -> NumEq(l, r)
      [] l.t = "Nil" /\ r.t = "Nil" -> TRUE
      [] l.t = "String" /\ r.t = "String" -> l.s = r.s
      [] l.t = "Class" /\ r.t = "Class" -> l.class.name = r.class.name
      [] l.t = "Callable" /\ r.t = "Callable" ->
            CallableDisplay(l.fn) = CallableDisplay(r.fn)
      [] OTHER -> FALSE

----------------------------------------------------------------------------
(* Outcomes.  Result<_, RuntimeException> of the evaluator, with the state *)
(* the call leaves behind.  k is "Ok", "RuntimeError" or "Return" (the two *)
(* variants of RuntimeException, loxerr.rs), or "Panic" when the call      *)
(* unwinds through an unwrap() on None or an unreachable!().  from is the  *)
(* call depth at which a Return was raised.                                *)

Ok(st, v) == [st |-> st, k |-> "Ok", v |-> v, msg |-> "", line |-> 0, from |-> 0]

\* gen_err and the RuntimeException::RuntimeError { token, error } literals
gen_err(st, token, msg) ==
    [st |-> st, k |-> "RuntimeError", v |-> NilV, msg |-> msg,
     line |-> token.line, from |-> 0]

ReturnOf(st, v) ==
    [st |-> st, k |-> "Return", v |-> v, msg |-> "", line |-> 0, from |-> st.depth]

Panic(st, msg) ==
    [st |-> st, k |-> "Panic", v |-> NilV, msg |-> msg, line |-> 0, from |-> 0]

\* An observation of the log: what happened (k), up to three numbers and a
\* string describing it.
Event(k, a, b, c, s) == [k |-> k, a |-> a, b |-> b, c |-> c, s |-> s]

\* The observation appended to the interpreter's log, stamped with the calls
\* made, the instances created and the lines printed so far.
Observe(st, ev) ==
    [st EXCEPT !.log = Append(@, [k |-> ev.k, a |-> ev.a, b |-> ev.b, c |-> ev.c,
                                  s |-> ev.s, calls |-> st.calls,
                                  fields |-> Len(st.fields), out |-> Len(st.out)])]

----------------------------------------------------------------------------
(* Environment (env.rs).  st.envs[e] is the frame behind the Rc numbered   *)
(* e; enclosing = 0 is None.                                               *)

\* Environment::new / Environment::encloser, placed behind a fresh Rc
Environment_encloser(st, encloser) ==
    [st EXCEPT !.envs = Append(@, [values |-> EmptyMap, enclosing |-> encloser])]

\* the Rc a call of Environment_encloser has just made
Newest(st) == Len(st.envs)

Env_define(st, e, name, val) ==
    [st EXCEPT !.envs[e].values = Put(@, name, val)]

\* an assign that defines the name in the outermost frame when no frame has it
RECURSIVE Env_assign_defining(_, _, _, _)
Env_assign_defining(envs, e, t, val) ==
    IF Has(envs[e].values, t.lexeme) \/ envs[e].enclosing = 0
    THEN [ok |-> TRUE, envs |-> [envs EXCEPT ![e].values = Put(@, t.lexeme, val)]]
    ELSE Env_assign_defining(envs, envs[e].enclosing, t, val)

RECURSIVE Env_assign(_, _, _, _)
Env_assign(envs, e, t, val) ==
    IF Has(envs[e].values, t.lexeme)
    THEN [ok |-> TRUE, envs |-> [envs EXCEPT ![e].values = Put(@, t.lexeme, val)]]
    ELSE IF envs[e].enclosing # 0
    THEN Env_assign(envs, envs[e].enclosing, t, val)
    ELSE [ok |-> FALSE, envs |-> envs]

RECURSIVE Env_get(_, _, _)
Env_get(envs, e, name) ==
    IF Has(envs[e].values, name.lexeme)
    THEN [ok |-> TRUE, v |-> envs[e].values[name.lexeme]]
    ELSE IF envs[e].enclosing # 0
    THEN Env_get(envs, envs[e].enclosing, name)
    ELSE [ok |-> FALSE, v |-> NilV]

UndefinedVariable(name) == "Undefined variable '" \o name.lexeme \o "'."

\* n more enclosing links from frame e; 0 when an unwrap() meets None
RECURSIVE Walk(_, _, _)
Walk(envs, e, n) ==
    IF e = 0 THEN 0
    ELSE IF n <= 0 THEN e
    ELSE Walk(envs, envs[e].enclosing, n - 1)

\* Environment::ancestor: one link, then one more for each of 1..idx
ancestor(envs, e, idx) == Walk(envs, envs[e].enclosing, idx - 1)

\* the frame the _at operations work on
FrameAt(envs, e, dist) == IF dist = 0 THEN e ELSE ancestor(envs, e, dist)

\* a get_at that falls back on the frames outside the one dist links up
Env_get_at_fallback(envs, e, dist, name) ==
    LET near == Env_get(envs, e, name)
        f == FrameAt(envs, e, dist)
    IN IF f # 0 /\ Has(envs[f].values, name.lexeme) THEN near
       ELSE [ok |-> FALSE, v |-> NilV]

\* Environment::get_at; ok = FALSE when one of its unwrap()s panics
Env_get_at(envs, e, dist, name) ==
    LET f == FrameAt(envs, e, dist)
    IN IF f # 0 /\ Has(envs[f].values, name.lexeme)
       THEN [ok |-> TRUE, v |-> envs[f].values[name.lexeme]]
       ELSE [ok |-> FALSE, v |-> NilV]

\* Environment::assign_at
Env_assign_at(envs, e, dist, t, val) ==
    LET f == FrameAt(envs, e, dist)
    IN IF f # 0
       THEN [ok |-> TRUE, envs |-> [envs EXCEPT ![f].values = Put(@, t.lexeme, val)]]
       ELSE [ok |-> FALSE, envs |-> envs]

\* whether the frame dist links up from e exists and defines name
DefinedAt(envs, e, dist, name) ==
    LET f == FrameAt(envs, e, dist)
    IN f # 0 /\ Has(envs[f].values, name)

----------------------------------------------------------------------------
(* Tokens.  token.rs is not among the source files: a token is the triple  *)
(* (kind, lexeme, line) of the specification, the kinds Number and         *)
(* StringLiteral carrying their literal (scanner.rs:189, 207).             *)

Token(type, lexeme, line, literal) ==
    [type |-> type, lexeme |-> lexeme, line |-> line, literal |-> literal]

\* the token Function::call and Expr::Super look `this` up with
dummy_token == Token("This", "this", 0, NilV)

----------------------------------------------------------------------------
(* Callables, classes and instances (loxcallables.rs, class.rs,            *)
(* instance.rs).                                                           *)

\* Native::new(0, ..) of Interpreter::new: the clock
NativeClock == [native |-> TRUE, arity |-> 0]

\* Function::new
Function_new(declaration, closure, is_init) ==
    [native |-> FALSE, id |-> declaration.name, params |-> declaration.params,
     body |-> declaration.body, closure |-> closure, is_init |-> is_init]

\* Function::bind: the bound function and the state holding its new frame
Function_bind(st, f, instance) ==
    LET st1 == Environment_encloser(st, f.closure)
        env == Newest(st1)
    IN [st |-> Env_define(st1, env, "this", instance),
        fn |-> [f EXCEPT !.closure = env]]

\* LoxCallable::arity for Native and Function
Callable_arity(f) == IF f.native THEN f.arity ELSE Len(f.params)

\* LoxClass::new; superclass is <<>> (None) or <<class>>
LoxClass_new(name, superclass, methods) ==
    [name |-> name, superclass |-> superclass, methods |-> methods]

\* LoxClass::find_method: <<>> (None) or <<function>>
RECURSIVE find_method(_, _)
find_method(class, name) ==
    IF Has(class.methods, name) THEN <<class.methods[name]>>
    ELSE IF class.superclass # <<>> THEN find_method(class.superclass[1], name)
    ELSE <<>>

\* the arity of the class's own init, its superclass not consulted
LoxClass_own_arity(class) ==
    IF Has(class.methods, "init") THEN Callable_arity(class.methods["init"]) ELSE 0

\* LoxClass::arity
LoxClass_arity(class) ==
    LET init == find_method(class, "init")
    IN IF init # <<>> THEN Callable_arity(init[1]) ELSE 0

\* LoxInstance::new behind Rc<RefCell<..>>: a fresh field map
LoxInstance_new(st) == [st EXCEPT !.fields = Append(@, EmptyMap)]

\* LoxInstance::set
LoxInstance_set(st, instance, name, value) ==
    [st EXCEPT !.fields[instance.fields] = Put(@, name.lexeme, value)]

UndefinedProperty(name) == "Undefined property '" \o name.lexeme \o "'."

\* a get that looks the methods up before the fields
LoxInstance_get_methods_first(st, instance, name) ==
    LET method == find_method(instance.class, name.lexeme)
    IN IF method # <<>>
       THEN LET b == Function_bind(st, method[1],
                                   InstanceV(instance.class, instance.fields))
            IN Ok(b.st, CallableV(b.fn))
       ELSE IF Has(st.fields[instance.fields], name.lexeme)
       THEN Ok(st, st.fields[instance.fields][name.lexeme])
       ELSE gen_err(st, name, UndefinedProperty(name))

\* a get that hands bind an instance with a field map of its own, a copy
LoxInstance_get_copied(st, instance, name) ==
    IF Has(st.fields[instance.fields], name.lexeme)
    THEN Ok(st, st.fields[instance.fields][name.lexeme])
    ELSE LET method == find_method(instance.class, name.lexeme)
             st1 == [st EXCEPT !.fields = Append(@, @[instance.fields])]
         IN IF method # <<>>
            THEN LET b == Function_bind(st1, method[1],
                                        InstanceV(instance.class, Len(st1.fields)))
                 IN Ok(b.st, CallableV(b.fn))
            ELSE gen_err(st, name, UndefinedProperty(name))

\* LoxInstance::get; the instance handed to bind is a clone that shares
\* the field map
LoxInstance_get(st, instance, name) ==
    IF Has(st.fields[instance.fields], name.lexeme)
    THEN Ok(st, st.fields[instance.fields][name.lexeme])
    ELSE LET method == find_method(instance.class, name.lexeme)
         IN IF method # <<>>
            THEN LET b == Function_bind(st, method[1],
                                        InstanceV(instance.class, instance.fields))
                 IN Ok(b.st, CallableV(b.fn))
            ELSE gen_err(st, name, UndefinedProperty(name))

----------------------------------------------------------------------------
(* The AST (expr.rs, stmt.rs).  An expression is a record with e (the      *)
(* variant), id (the address of its Rc<Expr>) and the variant's fields; a  *)
(* statement is a record with s (the variant) and the variant's fields.    *)
(* Option<_> is <<>> for None and <<x>> for Some(x).                       *)

Literal(id, value) == [e |-> "Literal", id |-> id, value |-> value]
Variable(id, name) == [e |-> "Variable", id |-> id, name |-> name]
AssignE(id, name, value) == [e |-> "Assign", id |-> id, name |-> name, value |-> value]
Binary(id, left, op, right) ==
    [e |-> "Binary", id |-> id, left |-> left, op |-> op, right |-> right]
Logical(id, left, op, right) ==
    [e |-> "Logical", id |-> id, left |-> left, op |-> op, right |-> right]
Call(id, callee, paren, args) ==
    [e |-> "Call", id |-> id, callee |-> callee, paren |-> paren, args |-> args]
GetE(id, object, name) == [e |-> "Get", id |-> id, object |-> object, name |-> name]
Grouping(id, expr) == [e |-> "Grouping", id |-> id, expr |-> expr]
SetE(id, object, name, value) ==
    [e |-> "Set", id |-> id, object |-> object, name |-> name, value |-> value]
SuperE(id, keyword, method) ==
    [e |-> "Super", id |-> id, keyword |-> keyword, method |-> method]
ThisE(id, keyword) == [e |-> "This", id |-> id, keyword |-> keyword]
Unary(id, op, right) == [e |-> "Unary", id |-> id, op |-> op, right |-> right]

NullS == [s |-> "Null"]
BlockS(ss) == [s |-> "Block", stmts |-> ss]
ClassS(name, superclass, methods) ==
    [s |-> "Class", name |-> name, superclass |-> superclass, methods |-> methods]
ExpressionS(expr) == [s |-> "Expression", expr |-> expr]
FunctionS(name, params, body) ==
    [s |-> "Function", name |-> name, params |-> params, body |-> body]
IfS(cond, then, else) == [s |-> "If", cond |-> cond, then |-> then, else |-> else]
PrintS(expr) == [s |-> "Print", expr |-> expr]
ReturnS(keyword, value) == [s |-> "Return", keyword |-> keyword, value |-> value]
VarS(name, init) == [s |-> "Var", name |-> name, init |-> init]
WhileS(cond, body) == [s |-> "While", cond |-> cond, body |-> body]

----------------------------------------------------------------------------
(* The interpreter (interpreter.rs).  Its state st holds the fields of     *)
(* struct Interpreter (globals, env, locals), the heaps (envs, fields),    *)
(* the lines printed (out), the reading the clock returns, and what the    *)
(* properties below observe of a run: the call depth and the log.          *)

\* Interpreter::new; frame 1 is the globals
Interpreter_new(clock) ==
    [envs |-> <<[values |-> Put(EmptyMap, "clock", CallableV(NativeClock)),
                 enclosing |-> 0]>>,
     fields |-> <<>>,
     globals |-> 1,
     env |-> 1,
     locals |-> EmptyMap,
     out |-> <<>>,
     clock |-> clock,
     depth |-> 0,
     calls |-> 0,
     log |-> <<>>]

\* a resolve that adds to the depth already recorded for the expression
Interpreter_resolve_added(st, expr, idx) ==
    [st EXCEPT !.locals = Put(@, expr.id, IF Has(@, expr.id) THEN @[expr.id] + idx
                                         ELSE idx)]

\* Interpreter::resolve
Interpreter_resolve(st, expr, idx) == [st EXCEPT !.locals = Put(@, expr.id, idx)]

\* the resolver's guarantee, observed where a recorded depth is used
Resolved(st, expr, dist, name) ==
    Observe(st, Event("Resolved", expr.id, dist,
                      IF DefinedAt(st.envs, st.env, dist, name) THEN 1 ELSE 0, name))

\* dynamic scoping: the name looked up along the chain of the current frame
lookup_dynamic(name, expr, st) ==
    LET r == Env_get(st.envs, st.env, name)
    IN IF r.ok THEN Ok(st, r.v) ELSE gen_err(st, name, UndefinedVariable(name))

\* Interpreter::lookup_variable
lookup_variable(name, expr, st) ==
    IF Has(st.locals, expr.id)
    THEN LET dist == st.locals[expr.id]
             st1 == Resolved(st, expr, dist, name.lexeme)
             r == Env_get_at(st.envs, st.env, dist, name)
         IN IF r.ok THEN Ok(st1, r.v) ELSE Panic(st1, "get_at: unwrap on None")
    ELSE LET r == Env_get(st.envs, st.globals, name)
         IN IF r.ok THEN Ok(st, r.v) ELSE gen_err(st, name, UndefinedVariable(name))

ExpectedArguments(arity, got) ==
    "Expected " \o ToString(arity) \o " arguments but got " \o ToString(got) \o "."

\* the arms of Expr::Binary that take two numbers
NumericBinary(st, op, l, r) ==
    IF l.t = "Number" /\ r.t = "Number"
    THEN CASE op.type = "Greater" -> Ok(st, BoolV(NumLess(r, l)))
           [] op.type = "GreaterEqual" -> Ok(st, BoolV(NumLessEq(r, l)))
           [] op.type = "Less" -> Ok(st, BoolV(NumLess(l, r)))
           [] op.type = "LessEqual" -> Ok(st, BoolV(NumLessEq(l, r)))
           [] op.type = "Minus" -> Ok(st, NumSub(l, r))
           [] op.type = "Slash" -> Ok(st, NumDiv(l, r))
           [] op.type = "Star" -> Ok(st, NumMul(l, r))
    ELSE gen_err(st, op, "Operands must be numbers.")

\* Expr::Binary once both operands are evaluated
BinaryOp(st, op, l, r) ==
    CASE op.type = "EqualEqual" -> Ok(st, BoolV(ValueEq(l, r)))
      [] op.type = "BangEqual" -> Ok(st, BoolV(~ValueEq(l, r)))
      [] op.type = "Plus" ->
            IF l.t = "Number" /\ r.t = "Number" THEN Ok(st, NumAdd(l, r))
            ELSE IF l.t = "String" /\ r.t = "String" THEN Ok(st, StringV(l.s \o r.s))
            ELSE gen_err(st, op, "Operands must be two numbers or two strings.")
      [] op.type \in {"Greater", "GreaterEqual", "Less", "LessEqual",
                      "Minus", "Slash", "Star"} -> NumericBinary(st, op, l, r)
      [] OTHER -> Panic(st, "unreachable")

\* evaluate, execute and Function::call call one another; every such call
\* goes through Visit, which dispatches on the function called
RECURSIVE Visit(_, _, _, _)

\* self.evaluate(expr)
Eval(expr, st) == Visit("evaluate", expr, <<>>, st)

\* self.execute(stmt)
Exec(stmt, st) == Visit("execute", stmt, <<>>, st)

\* function.call(self, &args)
CallFn(f, args, st) == Visit("call", f, args, st)

RECURSIVE EvaluateArgs(_, _, _, _), ExecuteAll(_, _, _), WhileLoop(_, _)

\* the loop `for arg in args` of Expr::Call; r.v is args_evaluated
EvaluateArgs(args, i, acc, st) ==
    IF i > Len(args) THEN Ok(st, acc)
    ELSE LET r == Eval(args[i], st)
         IN IF r.k # "Ok" THEN r
            ELSE EvaluateArgs(args, i + 1, Append(acc, r.v), r.st)

\* <LoxClass as LoxCallable>::call
LoxClass_call(class, args, st) ==
    LET st1 == LoxInstance_new(st)
        instance == InstanceV(class, Len(st1.fields))
        init == find_method(class, "init")
    IN IF init # <<>>
       THEN LET b == Function_bind(st1, init[1], instance)
                r == CallFn(b.fn, args, b.st)
            IN IF r.k # "Ok" THEN r ELSE Ok(r.st, instance)
       ELSE Ok(st1, instance)

\* what a call of a class or of a bound initializer gave back: the instance
\* returned (its field map, 0 when the value is no instance), the instance the
\* call is to yield, and whether the two are of the same class
Yielded(expr, r, instance, kind) ==
    IF r.k # "Ok" THEN r
    ELSE [r EXCEPT !.st =
             Observe(r.st, Event("Yielded", IF r.v.t = "Instance" THEN r.v.fields ELSE 0,
                                 IF instance.t = "Instance" THEN instance.fields ELSE 0,
                                 IF r.v.t = "Instance" /\ instance.t = "Instance"
                                    /\ r.v.class = instance.class
                                 THEN 1 ELSE 0, kind))]

\* callee.call(self, &args_evaluated), for the three kinds of callee
Invoke(expr, callee, args, st) ==
    LET st1 == Observe(st, Event("Invoke", expr.id, Len(args), 0, callee.t))
    IN IF callee.t = "Class"
       THEN Yielded(expr, LoxClass_call(callee.class, args, st1),
                    InstanceV(callee.class, Len(st1.fields) + 1), "Class")
       ELSE IF callee.fn.native THEN Ok(st1, NumberV(st1.clock, 0))
       ELSE IF callee.fn.is_init
       THEN Yielded(expr, CallFn(callee.fn, args, st1),
                    Env_get_at(st1.envs, callee.fn.closure, 0, dummy_token).v, "init")
       ELSE CallFn(callee.fn, args, st1)

\* Expr::Call with the callee checked before the arguments are evaluated
EvaluateCall_callee_first(expr, st) ==
    LET c == Eval(expr.callee, st)
    IN IF c.k # "Ok" THEN c
       ELSE IF c.v.t \notin {"Callable", "Class"}
       THEN gen_err(Observe(c.st, Event("Callee", expr.id, 0, Len(expr.args), c.v.t)),
                    expr.paren, "Can only call functions and classes.")
       ELSE
       LET a == EvaluateArgs(expr.args, 1, <<>>, c.st)
           arity == IF c.v.t = "Callable" THEN Callable_arity(c.v.fn)
                    ELSE LoxClass_arity(c.v.class)
       IN IF a.k # "Ok" THEN a
          ELSE IF Len(a.v) # arity
          THEN gen_err(a.st, expr.paren, ExpectedArguments(arity, Len(a.v)))
          ELSE Invoke(expr, c.v, a.v, a.st)

\* Expr::Call
EvaluateCall(expr, st) ==
    LET c == Eval(expr.callee, st)
    IN IF c.k # "Ok" THEN c
       ELSE
       LET a == EvaluateArgs(expr.args, 1, <<>>, c.st)
       IN IF a.k # "Ok" THEN a
          ELSE
          LET callee == c.v
              args_evaluated == a.v
              st1 == Observe(a.st, Event("Callee", expr.id, Len(args_evaluated),
                                         Len(expr.args), callee.t))
              arity == IF callee.t = "Callable" THEN Callable_arity(callee.fn)
                       ELSE LoxClass_arity(callee.class)
          IN IF callee.t \in {"Callable", "Class"}
             THEN IF Len(args_evaluated) # arity
                  THEN gen_err(Observe(st1, Event("Arity", expr.id, Len(args_evaluated),
                                                  arity, callee.t)),
                               expr.paren,
                               ExpectedArguments(arity, Len(args_evaluated)))
                  ELSE Invoke(expr, callee, args_evaluated, st1)
             ELSE gen_err(st1, expr.paren, "Can only call functions and classes.")

\* Expr::Super
EvaluateSuper(expr, st) ==
    IF ~Has(st.locals, expr.id) THEN Panic(st, "locals.get: unwrap on None")
    ELSE
    LET dist == st.locals[expr.id]
        st1 == Resolved(st, expr, dist, expr.keyword.lexeme)
        superclass == Env_get_at(st.envs, st.env, dist, expr.keyword)
        this == IF dist = 0 THEN [ok |-> FALSE, v |-> NilV]
                ELSE Env_get_at(st.envs, st.env, dist - 1, dummy_token)
    IN IF ~superclass.ok THEN Panic(st1, "get_at: unwrap on None")
       ELSE IF ~this.ok THEN Panic(st1, "get_at: unwrap on None")
       ELSE IF superclass.v.t # "Class" THEN Panic(st1, "unreachable")
       ELSE LET method == find_method(superclass.v.class, expr.method.lexeme)
            IN IF method = <<>>
               THEN gen_err(st1, expr.method, UndefinedProperty(expr.method))
               ELSE LET b == Function_bind(st1, method[1], this.v)
                    IN Ok(b.st, CallableV(b.fn))

\* what reading property name of instance in state st gave (r): the
\* observation holds what the instance had (2 a field of that name, 1 no
\* field but a method on the chain of its class, 0 neither), whether the
\* field maps are as before, and what came back (the Field's value, the
\* Method of the chain bound to the instance, the error Undefined)
Got(expr, instance, st, r) ==
    LET fields == st.fields[instance.fields]
        method == find_method(instance.class, expr.name.lexeme)
        had == IF Has(fields, expr.name.lexeme) THEN 2
               ELSE IF method # <<>> THEN 1 ELSE 0
        this == IF r.k = "Ok" /\ r.v.t = "Callable" /\ ~r.v.fn.native
                THEN Env_get_at(r.st.envs, r.v.fn.closure, 0, dummy_token)
                ELSE [ok |-> FALSE, v |-> NilV]
        back == CASE r.k = "Ok" /\ had = 2 /\ r.v = fields[expr.name.lexeme] -> "Field"
                  [] r.k = "Ok" /\ method # <<>> /\ this.ok
                     /\ this.v = InstanceV(instance.class, instance.fields)
                     /\ [r.v.fn EXCEPT !.closure = method[1].closure] = method[1]
                     /\ r.st.envs[r.v.fn.closure].enclosing = method[1].closure
                        -> "Method"
                  [] r.k = "RuntimeError" /\ r.msg = UndefinedProperty(expr.name)
                        -> "Undefined"
                  [] OTHER -> "Other"
    IN [r EXCEPT !.st = Observe(r.st, Event("Get", expr.id, had,
                                            IF r.st.fields = st.fields THEN 1 ELSE 0,
                                            back))]

\* what a Logical expression gave (r) after its left operand gave left: the
\* observation holds whether the left value is truthy, whether the value
\* and the state are those the left operand left behind, and the operator
Decided(expr, left, r) ==
    [r EXCEPT !.st = Observe(r.st, Event("Logical", expr.id,
                                         IF is_truthy(left.v) THEN 1 ELSE 0,
                                         IF r.k = "Ok" /\ r.v = left.v /\ r.st = left.st
                                         THEN 1 ELSE 0,
                                         expr.op.type))]

\* a Logical expression that evaluates both operands before it decides
EvaluateLogical_eager(expr, st) ==
    LET left == Eval(expr.left, st)
    IN IF left.k # "Ok" THEN left
       ELSE LET right == Eval(expr.right, left.st)
            IN IF right.k # "Ok" THEN right
               ELSE IF expr.op.type = "Or" /\ is_truthy(left.v)
               THEN Decided(expr, left, Ok(right.st, left.v))
               ELSE IF expr.op.type = "And" /\ ~is_truthy(left.v)
               THEN Decided(expr, left, Ok(right.st, left.v))
               ELSE Decided(expr, left, right)

\* Expr::Logical
EvaluateLogical(expr, st) ==
    LET left == Eval(expr.left, st)
    IN IF left.k # "Ok" THEN left
       ELSE IF expr.op.type = "Or" /\ is_truthy(left.v) THEN Decided(expr, left, left)
       ELSE IF expr.op.type = "And" /\ ~is_truthy(left.v) THEN Decided(expr, left, left)
       ELSE Decided(expr, left, Eval(expr.right, left.st))

\* Interpreter::evaluate
evaluate(expr, st) ==
    CASE expr.e = "Literal" -> Ok(st, expr.value)
      [] expr.e = "Grouping" -> Eval(expr.expr, st)
      [] expr.e = "Variable" -> lookup_variable(expr.name, expr, st)
      [] expr.e = "Assign" ->
            LET r == Eval(expr.value, st)
            IN IF r.k # "Ok" THEN r
               ELSE IF Has(r.st.locals, expr.id)
               THEN LET dist == r.st.locals[expr.id]
                        st1 == Resolved(r.st, expr, dist, expr.name.lexeme)
                        w == Env_assign_at(st1.envs, st1.env, dist, expr.name, r.v)
                    IN IF w.ok THEN Ok([st1 EXCEPT !.envs = w.envs], r.v)
                       ELSE Panic(st1, "ancestor: unwrap on None")
               ELSE LET w == Env_assign(r.st.envs, r.st.globals, expr.name, r.v)
                    IN IF w.ok THEN Ok([r.st EXCEPT !.envs = w.envs], r.v)
                       ELSE gen_err(r.st, expr.name, UndefinedVariable(expr.name))
      [] expr.e = "Call" -> EvaluateCall(expr, st)
      [] expr.e = "Get" ->
            LET o == Eval(expr.object, st)
            IN IF o.k # "Ok" THEN o
               ELSE IF o.v.t = "Instance"
               THEN Got(expr, o.v, o.st, LoxInstance_get(o.st, o.v, expr.name))
               ELSE gen_err(o.st, expr.name, "Only instances have properties.")
      [] expr.e = "Unary" ->
            LET r == Eval(expr.right, st)
            IN IF r.k # "Ok" THEN r
               ELSE CASE expr.op.type = "Bang" -> Ok(r.st, BoolV(~is_truthy(r.v)))
                      [] expr.op.type = "Minus" ->
                            IF r.v.t = "Number" THEN Ok(r.st, NumNeg(r.v))
                            ELSE gen_err(r.st, expr.op, "Operand must be a number.")
                      [] OTHER -> Panic(r.st, "unreachable")
      [] expr.e = "Logical" -> EvaluateLogical(expr, st)
      [] expr.e = "Set" ->
            LET o == Eval(expr.object, st)
            IN IF o.k # "Ok" THEN o
               ELSE IF o.v.t = "Instance"
               THEN LET v == Eval(expr.value, o.st)
                    IN IF v.k # "Ok" THEN v
                       ELSE Ok(LoxInstance_set(v.st, o.v, expr.name, v.v), v.v)
               ELSE gen_err(o.st, expr.name, "Only instances have fields.")
      [] expr.e = "Super" -> EvaluateSuper(expr, st)
      [] expr.e = "This" -> lookup_variable(expr.keyword, expr, st)
      [] expr.e = "Binary" ->
            LET l == Eval(expr.left, st)
            IN IF l.k # "Ok" THEN l
               ELSE LET r == Eval(expr.right, l.st)
                    IN IF r.k # "Ok" THEN r
                       ELSE BinaryOp(r.st, expr.op, l.v, r.v)

\* the loop `for stmt in stmts`, from statement i on
ExecuteAll(ss, i, st) ==
    IF i > Len(ss) THEN Ok(st, NilV)
    ELSE LET r == Exec(ss[i], st)
         IN IF r.k # "Ok" THEN r ELSE ExecuteAll(ss, i + 1, r.st)

\* a block that puts the previous frame back on normal completion only
execute_block_unrestored(ss, env, st) ==
    LET old_env == st.env
        r == ExecuteAll(ss, 1, [st EXCEPT !.env = env])
        st1 == [r.st EXCEPT !.env = IF r.k = "Ok" THEN old_env ELSE @]
    IN [r EXCEPT !.st = Observe(st1, Event("Block", old_env, st1.env, 0, r.k))]

\* Interpreter::execute_block; env is the Rc made of its second argument
execute_block(ss, env, st) ==
    LET old_env == st.env
        r == ExecuteAll(ss, 1, [st EXCEPT !.env = env])
        st1 == [r.st EXCEPT !.env = IF r.k = "Panic" THEN @ ELSE old_env]
    IN [r EXCEPT !.st = Observe(st1, Event("Block", old_env, st1.env, 0, r.k))]

\* dynamic scoping of calls: the frame of the call encloses the caller's env
CallerEnvironment(f, st) == Environment_encloser(st, st.env)

\* Function::call, its first line: the frame of the call encloses the closure
CallEnvironment(f, st) == Environment_encloser(st, f.closure)

\* a Return that no call catches
UncaughtResult(f, r, back) == [r EXCEPT !.st = back]

\* an initializer treated like any other function
ReturnedResult(f, r, back) ==
    CASE r.k = "Ok" -> Ok(back, NilV)
      [] r.k = "Return" ->
            Ok(Observe(back, Event("Caught", r.from, back.depth + 1, 0, "")), r.v)
      [] OTHER -> [r EXCEPT !.st = back]

\* Function::call, the match on the result of execute_block and what follows
\* it; back is the interpreter after the block
CallResult(f, r, back) ==
    LET this == Env_get_at(back.envs, f.closure, 0, dummy_token)
    IN CASE r.k = "Ok" ->
               IF ~f.is_init THEN Ok(back, NilV)
               ELSE IF this.ok THEN Ok(back, this.v)
               ELSE Panic(back, "get_at: unwrap on None")
         [] r.k = "Return" ->
               LET caught == Observe(back, Event("Caught", r.from, back.depth + 1, 0, ""))
               IN IF ~f.is_init THEN Ok(caught, r.v)
                  ELSE IF this.ok THEN Ok(caught, this.v)
                  ELSE Panic(caught, "get_at: unwrap on None")
         [] OTHER -> [r EXCEPT !.st = back]

\* <Function as LoxCallable>::call; args[i] panics when the arguments are
\* fewer than the parameters
Function_call(f, args, st) ==
    IF Len(args) < Len(f.params) THEN Panic(st, "index out of bounds")
    ELSE
    LET st1 == CallEnvironment(f, st)
        env == Newest(st1)
        st2 == [st1 EXCEPT
                  !.envs[env].values =
                      [x \in {f.params[i].lexeme : i \in 1..Len(f.params)} |->
                          LET last == CHOOSE i \in 1..Len(f.params) :
                                         /\ f.params[i].lexeme = x
                                         /\ \A j \in (i + 1)..Len(f.params) :
                                                f.params[j].lexeme # x
                          IN args[last]],
                  !.depth = @ + 1,
                  !.calls = @ + 1]
        r == execute_block(f.body, env, st2)
    IN CallResult(f, r, [r.st EXCEPT !.depth = st.depth])

\* the loop of Stmt::While
WhileLoop(stmt, st) ==
    LET c == Eval(stmt.cond, st)
    IN IF c.k # "Ok" THEN c
       ELSE IF ~is_truthy(c.v) THEN Ok(c.st, NilV)
       ELSE LET b == Exec(stmt.body, c.st)
            IN IF b.k # "Ok" THEN b ELSE WhileLoop(stmt, b.st)

\* the method table of Stmt::Class: a later method of a name replaces an
\* earlier one
MethodTable(methods, env) ==
    LET fs == {i \in 1..Len(methods) : methods[i].s = "Function"}
    IN [x \in {methods[i].name.lexeme : i \in fs} |->
          LET last == CHOOSE i \in fs :
                         /\ methods[i].name.lexeme = x
                         /\ \A j \in fs : j > i => methods[j].name.lexeme # x
          IN Function_new(methods[last], env, x = "init")]

\* Stmt::Class
ExecuteClass(stmt, st) ==
    LET sup == IF stmt.superclass = <<>> THEN Ok(st, NilV)
               ELSE IF stmt.superclass[1].e # "Variable" THEN Panic(st, "unreachable")
               ELSE Eval(stmt.superclass[1], st)
    IN IF sup.k # "Ok" THEN sup
       ELSE IF stmt.superclass # <<>> /\ sup.v.t # "Class"
       THEN gen_err(sup.st, stmt.superclass[1].name, "Superclass must be a class.")
       ELSE
       LET superclass_t == IF stmt.superclass = <<>> THEN <<>> ELSE <<sup.v.class>>
           st1 == Env_define(sup.st, sup.st.env, stmt.name.lexeme, NilV)
           st2 == IF superclass_t = <<>> THEN st1
                  ELSE LET n == Environment_encloser(st1, st1.env)
                       IN [Env_define(n, Newest(n), "super", ClassV(superclass_t[1]))
                             EXCEPT !.env = Newest(n)]
           klass == LoxClass_new(stmt.name.lexeme, superclass_t,
                                 MethodTable(stmt.methods, st2.env))
           st3 == [st2 EXCEPT !.env = st1.env]
           w == Env_assign(st3.envs, st3.env, stmt.name, ClassV(klass))
       IN IF w.ok THEN Ok([st3 EXCEPT !.envs = w.envs], NilV)
          ELSE gen_err(st3, stmt.name, UndefinedVariable(stmt.name))

\* Interpreter::execute
execute(stmt, st) ==
    CASE stmt.s = "If" ->
            LET c == Eval(stmt.cond, st)
            IN IF c.k # "Ok" THEN c
               ELSE IF is_truthy(c.v) THEN Exec(stmt.then, c.st)
               ELSE IF stmt.else # <<>> THEN Exec(stmt.else[1], c.st)
               ELSE Ok(c.st, NilV)
      [] stmt.s = "Expression" ->
            LET r == Eval(stmt.expr, st)
            IN IF r.k # "Ok" THEN r ELSE Ok(r.st, NilV)
      [] stmt.s = "While" -> WhileLoop(stmt, st)
      [] stmt.s = "Print" ->
            LET r == Eval(stmt.expr, st)
            IN IF r.k # "Ok" THEN r
               ELSE Ok([r.st EXCEPT !.out = Append(@, Display(r.v))], NilV)
      [] stmt.s = "Var" ->
            LET r == IF stmt.init # <<>> THEN Eval(stmt.init[1], st)
                     ELSE Ok(st, NilV)
            IN IF r.k # "Ok" THEN r
               ELSE Ok(Env_define(r.st, r.st.env, stmt.name.lexeme, r.v), NilV)
      [] stmt.s = "Block" ->
            LET n == Environment_encloser(st, st.env)
            IN execute_block(stmt.stmts, Newest(n), n)
      [] stmt.s = "Class" -> ExecuteClass(stmt, st)
      [] stmt.s = "Function" ->
            Ok(Env_define(st, st.env, stmt.name.lexeme,
                          CallableV(Function_new(stmt, st.env, FALSE))), NilV)
      [] stmt.s = "Null" -> Ok(st, NilV)
      [] stmt.s = "Return" ->
            LET r == IF stmt.value # <<>> THEN Eval(stmt.value[1], st)
                     ELSE Ok(st, NilV)
            IN IF r.k # "Ok" THEN r ELSE ReturnOf(r.st, r.v)

\* the dispatch of a call among evaluate, execute and Function::call
Visit(what, node, arg, st) ==
    CASE what = "evaluate" -> evaluate(node, st)
      [] what = "execute" -> execute(node, st)
      [] what = "call" -> Function_call(node, arg, st)

----------------------------------------------------------------------------
(* The resolver (resolver.rs).  Its state rs holds the fields of struct    *)
(* Resolver; rs.interpreter is the interpreter it writes locals into.      *)

\* Resolver::new
Resolver_new(interpreter) ==
    [interpreter |-> interpreter,
     scopes |-> <<>>,
     has_error |-> FALSE,
     current_function |-> "NONE",
     current_class |-> "NONE"]

begin_scope(rs) == [rs EXCEPT !.scopes = Append(@, EmptyMap)]

end_scope(rs) == [rs EXCEPT !.scopes = SubSeq(@, 1, Len(@) - 1)]

\* a declare that takes a name the scope already holds
declare_again(rs, name) ==
    IF rs.scopes = <<>> THEN rs
    ELSE [rs EXCEPT !.scopes[Len(rs.scopes)] = Put(@, name.lexeme, FALSE)]

\* Resolver::declare
declare(rs, name) ==
    IF rs.scopes = <<>> THEN rs
    ELSE [rs EXCEPT
            !.has_error = @ \/ Has(rs.scopes[Len(rs.scopes)], name.lexeme),
            !.scopes[Len(rs.scopes)] = Put(@, name.lexeme, FALSE)]

\* Resolver::define
Resolver_define(rs, name) ==
    IF rs.scopes = <<>> THEN rs
    ELSE [rs EXCEPT !.scopes[Len(rs.scopes)] = Put(@, name.lexeme, TRUE)]

\* Resolver::resolve_local: the innermost scope that has the name, counted
\* from the innermost
resolve_local(rs, expr, name) ==
    LET n == Len(rs.scopes)
        hits == {i \in 0..(n - 1) : Has(rs.scopes[n - i], name.lexeme)}
    IN IF hits = {} THEN rs
       ELSE LET i == CHOOSE h \in hits : \A g \in hits : h <= g
            IN [rs EXCEPT !.interpreter = Interpreter_resolve(@, expr, i)]

\* TRUE, and only known once the state rs is: Rust makes a call with the
\* calls before it done
Computed(rs) == DOMAIN rs # {}

\* resolve_stmt and resolve_expr call themselves and one another; every such
\* call goes through ResolveNode, which dispatches on the function called
RECURSIVE ResolveNode(_, _, _)

\* self.resolve_stmt(stmt)
ResolveStmt(stmt, rs) == ResolveNode("stmt", stmt, rs)

\* self.resolve_expr(expr)
ResolveExpr(expr, rs) == ResolveNode("expr", expr, rs)

RECURSIVE Resolver_resolve(_, _, _), ResolveExprs(_, _, _), ResolveMethods(_, _, _),
          DeclareParams(_, _, _)

\* Resolver::resolve, from statement i on
Resolver_resolve(ss, i, rs) ==
    IF Computed(rs) /\ i <= Len(ss)
    THEN Resolver_resolve(ss, i + 1, ResolveStmt(ss[i], rs))
    ELSE rs

\* the loop `for param in params` of resolve_function
DeclareParams(params, i, rs) ==
    IF i > Len(params) THEN rs
    ELSE DeclareParams(params, i + 1, Resolver_define(declare(rs, params[i]), params[i]))

\* a resolve_function that leaves current_function as it finds it
resolve_function_unmarked(params, body, ftype, rs) ==
    end_scope(Resolver_resolve(body, 1, DeclareParams(params, 1, begin_scope(rs))))

\* Resolver::resolve_function
resolve_function(params, body, ftype, rs) ==
    LET enclosing_function == rs.current_function
        r1 == begin_scope([rs EXCEPT !.current_function = ftype])
        r2 == DeclareParams(params, 1, r1)
        r3 == end_scope(Resolver_resolve(body, 1, r2))
    IN [r3 EXCEPT !.current_function = enclosing_function]

\* the loop `for stmt in methods` of Stmt::Class
ResolveMethods(methods, i, rs) ==
    IF i > Len(methods) THEN rs
    ELSE IF methods[i].s = "Function"
    THEN ResolveMethods(methods, i + 1,
             resolve_function(methods[i].params, methods[i].body,
                              IF methods[i].name.lexeme = "init" THEN "INITIALIZER"
                              ELSE "METHOD", rs))
    ELSE ResolveMethods(methods, i + 1, rs)

\* Resolver::resolve_stmt
resolve_stmt(stmt, rs) ==
    CASE stmt.s = "Null" -> rs
      [] stmt.s = "Block" -> end_scope(Resolver_resolve(stmt.stmts, 1, begin_scope(rs)))
      [] stmt.s = "Class" ->
            LET enclosing_class == rs.current_class
                r1 == Resolver_define(declare([rs EXCEPT !.current_class = "CLASS"],
                                              stmt.name), stmt.name)
                r2 == begin_scope(r1)
                r3 == [r2 EXCEPT !.scopes[Len(r2.scopes)] = Put(@, "this", TRUE)]
                r4 == end_scope(ResolveMethods(stmt.methods, 1, r3))
            IN [r4 EXCEPT !.current_class = enclosing_class]
      [] stmt.s = "Expression" -> ResolveExpr(stmt.expr, rs)
      [] stmt.s = "Function" ->
            resolve_function(stmt.params, stmt.body, "FUNCTION",
                             Resolver_define(declare(rs, stmt.name), stmt.name))
      [] stmt.s = "If" ->
            LET r1 == ResolveStmt(stmt.then, ResolveExpr(stmt.cond, rs))
            IN IF stmt.else # <<>> THEN ResolveStmt(stmt.else[1], r1) ELSE r1
      [] stmt.s = "Print" -> ResolveExpr(stmt.expr, rs)
      [] stmt.s = "Return" ->
            IF rs.current_function = "NONE" THEN [rs EXCEPT !.has_error = TRUE]
            ELSE IF stmt.value # <<>>
            THEN ResolveExpr(stmt.value[1],
                     IF rs.current_function = "INITIALIZER"
                     THEN [rs EXCEPT !.has_error = TRUE] ELSE rs)
            ELSE rs
      [] stmt.s = "Var" ->
            LET r1 == declare(rs, stmt.name)
                r2 == IF stmt.init # <<>> THEN ResolveExpr(stmt.init[1], r1) ELSE r1
            IN Resolver_define(r2, stmt.name)
      [] stmt.s = "While" -> ResolveStmt(stmt.body, ResolveExpr(stmt.cond, rs))

\* the loop `for expr in body` of Expr::Call
ResolveExprs(es, i, rs) ==
    IF Computed(rs) /\ i <= Len(es)
    THEN ResolveExprs(es, i + 1, ResolveExpr(es[i], rs))
    ELSE rs

\* Resolver::resolve_expr; it has no arm for Expr::Super
resolve_expr(expr, rs) ==
    CASE expr.e = "Assign" ->
            resolve_local(ResolveExpr(expr.value, rs), expr, expr.name)
      [] expr.e = "Binary" -> ResolveExpr(expr.right, ResolveExpr(expr.left, rs))
      [] expr.e = "Call" -> ResolveExprs(expr.args, 1, ResolveExpr(expr.callee, rs))
      [] expr.e = "Get" -> ResolveExpr(expr.object, rs)
      [] expr.e = "Grouping" -> ResolveExpr(expr.expr, rs)
      [] expr.e = "Literal" -> rs
      [] expr.e = "Logical" -> ResolveExpr(expr.right, ResolveExpr(expr.left, rs))
      [] expr.e = "Set" -> ResolveExpr(expr.value, ResolveExpr(expr.object, rs))
      [] expr.e = "This" ->
            IF rs.current_class = "NONE" THEN [rs EXCEPT !.has_error = TRUE]
            ELSE resolve_local(rs, expr, expr.keyword)
      [] expr.e = "Unary" -> ResolveExpr(expr.right, rs)
      [] expr.e = "Variable" ->
            IF rs.scopes = <<>> THEN rs
            ELSE IF Has(rs.scopes[Len(rs.scopes)], expr.name.lexeme)
                    /\ rs.scopes[Len(rs.scopes)][expr.name.lexeme] = FALSE
            THEN [rs EXCEPT !.has_error = TRUE]
            ELSE resolve_local(rs, expr, expr.name)
      [] OTHER -> rs

\* the dispatch of a call among resolve_stmt and resolve_expr
ResolveNode(what, node, rs) ==
    CASE Computed(rs) /\ what = "stmt" -> resolve_stmt(node, rs)
      [] what = "expr" -> resolve_expr(node, rs)

----------------------------------------------------------------------------
(* The scanner (scanner.rs).  A source is a string; chars[i] of the source *)
(* is CharAt(source, i).  The scanner counts characters (chars_current)    *)
(* and UTF-8 bytes (source_current, start) side by side.                   *)

Letters == "abcdefghijklmnopqrstuvwxyzABCDEFGHIJKLMNOPQRSTUVWXYZ"
Digits == "0123456789"
Punctuation == " \t\r\n\"{}(),.-+;*<>!=/_@#$%^&|~?:'[]"

CharsOf(str) == {SubSeq(str, i, i) : i \in 1..Len(str)}

\* the characters UTF-8 encodes in one byte
Ascii == CharsOf(Letters) \cup CharsOf(Digits) \cup CharsOf(Punctuation)

\* char::len_utf8, for sources whose other characters lie below U+0800
len_utf8(c) == IF c \in Ascii THEN 1 ELSE 2

\* what peek and peek_next return at the end of the source, '\0'
NUL == "<NUL>"

is_digit(c) == c \in CharsOf(Digits)

is_alpha(c) == c \in CharsOf(Letters) \cup {"_"}

is_alpha_numeric(c) == is_alpha(c) \/ is_digit(c)

\* chars[i] (0-based)
CharAt(src, i) == SubSeq(src, i + 1, i + 1)

\* the positions of str whose character takes two bytes
Wide(str) == {i \in 1..Len(str) : len_utf8(SubSeq(str, i, i)) = 2}

\* the bytes the first k characters of str take
BytesOf(str, k) == k + Cardinality({i \in Wide(str) : i <= k})

\* source.len(): the length in bytes
ByteLen(str) == BytesOf(str, Len(str))

\* the number of characters of str that start before byte offset n
CharsIn(str, n) ==
    LET wide == Wide(str)
        last == IF n - 1 < Len(str) - 1 THEN n - 1 ELSE Len(str) - 1
    IN Cardinality({k \in 0..last : k + Cardinality({i \in wide : i <= k}) < n})

\* &source[from..to], a slice by byte offsets
Slice(src, from, to) ==
    SubSeq(src, CharsIn(src, from) + 1, CharsIn(src, to))

keyword_or_identifier(lexeme) ==
    CASE lexeme = "and" -> "And"
      [] lexeme = "class" -> "Class"
      [] lexeme = "else" -> "Else"
      [] lexeme = "false" -> "False"
      [] lexeme = "for" -> "For"
      [] lexeme = "fun" -> "Fun"
      [] lexeme = "if" -> "If"
      [] lexeme = "nil" -> "Nil"
      [] lexeme = "or" -> "Or"
      [] lexeme = "print" -> "Print"
      [] lexeme = "return" -> "Return"
      [] lexeme = "super" -> "Super"
      [] lexeme = "this" -> "This"
      [] lexeme = "true" -> "True"
      [] lexeme = "var" -> "Var"
      [] lexeme = "while" -> "While"
      [] OTHER -> "Identifier"

\* Scanner::new
Scanner_new(src) ==
    [source |-> src, source_current |-> 0, chars_current |-> 0, tokens |-> <<>>,
     start |-> 0, line |-> 1, has_error |-> FALSE]

Scanner_is_at_end(sc) == sc.source_current >= ByteLen(sc.source)

\* Scanner::advance: the state after it; it returns the character before
Scanner_advance(sc) ==
    [sc EXCEPT !.chars_current = @ + 1,
               !.source_current = @ + len_utf8(CharAt(sc.source, sc.chars_current))]

Scanner_peek(sc) ==
    IF Scanner_is_at_end(sc) THEN NUL ELSE CharAt(sc.source, sc.chars_current)

peek_next(sc) ==
    IF sc.chars_current + 1 >= Len(sc.source) THEN NUL
    ELSE CharAt(sc.source, sc.chars_current + 1)

\* Scanner::is_match: whether it matched, and the state after it
Scanner_is_match(sc, expected) ==
    IF Scanner_is_at_end(sc) \/ CharAt(sc.source, sc.chars_current) # expected
    THEN [ok |-> FALSE, sc |-> sc]
    ELSE [ok |-> TRUE, sc |-> Scanner_advance(sc)]

\* Scanner::add_token; literal is the payload of Number and StringLiteral
add_token(sc, token_type, literal) ==
    [sc EXCEPT !.tokens = Append(@, Token(token_type,
                                          Slice(sc.source, sc.start, sc.source_current),
                                          sc.line, literal))]

\* an error that is reported but not recorded
Scanner_error_unrecorded(sc) == sc

\* Scanner::error
Scanner_error(sc) == [sc EXCEPT !.has_error = TRUE]

\* a one-character token, or the two-character one when '=' follows
OneOrTwo(sc, two, one) ==
    LET m == Scanner_is_match(sc, "=")
    IN add_token(m.sc, IF m.ok THEN two ELSE one, NilV)

\* the loop of a line comment
RECURSIVE SkipComment(_)
SkipComment(sc) ==
    IF Scanner_peek(sc) # "\n" /\ ~Scanner_is_at_end(sc)
    THEN SkipComment(Scanner_advance(sc)) ELSE sc

\* the loop of Scanner::string
RECURSIVE StringBody(_)
StringBody(sc) ==
    IF Scanner_peek(sc) # "\"" /\ ~Scanner_is_at_end(sc)
    THEN StringBody(Scanner_advance(
             IF Scanner_peek(sc) = "\n" THEN [sc EXCEPT !.line = @ + 1] ELSE sc))
    ELSE sc

\* a string whose token takes the text between the quotes as its lexeme
Scanner_string_unquoted(sc) ==
    LET s1 == StringBody(sc)
    IN IF Scanner_is_at_end(s1) THEN Scanner_error(s1)
       ELSE LET s2 == Scanner_advance(s1)
                text == Slice(s2.source, s2.start + 1, s2.source_current - 1)
            IN [s2 EXCEPT !.tokens = Append(@, Token("StringLiteral", text, s2.line,
                                                     StringV(text)))]

\* a string whose missing closing quote goes unreported
Scanner_string_unreported(sc) ==
    LET s1 == StringBody(sc)
    IN IF Scanner_is_at_end(s1) THEN s1
       ELSE LET s2 == Scanner_advance(s1)
            IN add_token(s2, "StringLiteral",
                         StringV(Slice(s2.source, s2.start + 1, s2.source_current - 1)))

\* Scanner::string
Scanner_string(sc) ==
    LET s1 == StringBody(sc)
    IN IF Scanner_is_at_end(s1) THEN Scanner_error(s1)
       ELSE LET s2 == Scanner_advance(s1)
            IN add_token(s2, "StringLiteral",
                         StringV(Slice(s2.source, s2.start + 1, s2.source_current - 1)))

\* the loops `while is_digit(self.peek())`
RECURSIVE SkipDigits(_)
SkipDigits(sc) ==
    IF is_digit(Scanner_peek(sc)) THEN SkipDigits(Scanner_advance(sc)) ELSE sc

DigitValue(c) == CHOOSE d \in 0..9 : SubSeq(Digits, d + 1, d + 1) = c

\* lexeme.parse::<f64>() of digits with an optional fraction: mantissa m and
\* e fractional digits read so far; frac is whether the '.' was passed
RECURSIVE ParseF64(_, _, _, _)
ParseF64(lexeme, m, e, frac) ==
    IF lexeme = "" THEN NumberV(m, e)
    ELSE IF Head(lexeme) = "." THEN ParseF64(Tail(lexeme), m, e, TRUE)
    ELSE ParseF64(Tail(lexeme), 10 * m + DigitValue(Head(lexeme)),
                  IF frac THEN e + 1 ELSE e, frac)

\* Scanner::number
Scanner_number(sc) ==
    LET s1 == SkipDigits(sc)
        s2 == IF Scanner_peek(s1) = "." /\ is_digit(peek_next(s1))
              THEN SkipDigits(Scanner_advance(s1)) ELSE s1
        lexeme == Slice(s2.source, s2.start, s2.source_current)
    IN add_token(s2, "Number", ParseF64(lexeme, 0, 0, FALSE))

RECURSIVE SkipAlphaNumeric(_)
SkipAlphaNumeric(sc) ==
    IF is_alpha_numeric(Scanner_peek(sc)) THEN SkipAlphaNumeric(Scanner_advance(sc))
    ELSE sc

\* Scanner::identifier
Scanner_identifier(sc) ==
    LET s1 == SkipAlphaNumeric(sc)
    IN add_token(s1, keyword_or_identifier(Slice(s1.source, s1.start, s1.source_current)),
                 NilV)

\* Scanner::scan_token
scan_token(sc0) ==
    LET c == CharAt(sc0.source, sc0.chars_current)
        sc == Scanner_advance(sc0)
    IN CASE c = "{" -> add_token(sc, "LeftBrace", NilV)
         [] c = "}" -> add_token(sc, "RightBrace", NilV)
         [] c = "(" -> add_token(sc, "LeftParen", NilV)
         [] c = ")" -> add_token(sc, "RightParen", NilV)
         [] c = "," -> add_token(sc, "Comma", NilV)
         [] c = "." -> add_token(sc, "Dot", NilV)
         [] c = "-" -> add_token(sc, "Minus", NilV)
         [] c = "+" -> add_token(sc, "Plus", NilV)
         [] c = ";" -> add_token(sc, "Semicolon", NilV)
         [] c = "*" -> add_token(sc, "Star", NilV)
         [] c = "<" -> OneOrTwo(sc, "LessEqual", "Less")
         [] c = "!" -> OneOrTwo(sc, "BangEqual", "Bang")
         [] c = ">" -> OneOrTwo(sc, "GreaterEqual", "Greater")
         [] c = "=" -> OneOrTwo(sc, "EqualEqual", "Equal")
         [] c = "/" -> LET m == Scanner_is_match(sc, "/")
                       IN IF m.ok THEN SkipComment(m.sc)
                          ELSE add_token(sc, "Slash", NilV)
         [] c \in {"\t", "\r", " "} -> sc
         [] c = "\n" -> [sc EXCEPT !.line = @ + 1]
         [] c = "\"" -> Scanner_string(sc)
         [] is_digit(c) -> Scanner_number(sc)
         [] OTHER -> IF is_alpha(c) THEN Scanner_identifier(sc) ELSE Scanner_error(sc)

\* the loop of Scanner::scan_tokens
RECURSIVE ScanLoop(_)
ScanLoop(sc) ==
    IF Scanner_is_at_end(sc) THEN sc
    ELSE ScanLoop(scan_token([sc EXCEPT !.start = sc.source_current]))

\* Scanner::scan_tokens: the scanner after it; its tokens are the result
scan_tokens(sc) ==
    LET s1 == ScanLoop(sc)
    IN [s1 EXCEPT !.tokens = Append(@, Token("Eof", "", s1.line, NilV))]

----------------------------------------------------------------------------
(* The parser (parser.rs).  Its state ps holds the fields of struct Parser *)
(* and next_id, the address the next Rc::new(Expr) gets.  A parsing        *)
(* function returns the state after it, ok (Ok or Err(ParseError)) and the *)
(* node it built.                                                          *)

\* Parser::new; base is the first free address
Parser_new(toks, base) ==
    [current |-> 0, tokens |-> toks, has_error |-> FALSE, next_id |-> base]

Parsed(ps, node) == [ps |-> ps, ok |-> TRUE, node |-> node]

\* Err(ParseError)
Failed(ps) == [ps |-> ps, ok |-> FALSE, node |-> NullS]

\* Rc::new(..): the address to give the node; Allocated is the state after
NewId(ps) == ps.next_id

Allocated(ps) == [ps EXCEPT !.next_id = @ + 1]

Parser_peek(ps) == ps.tokens[ps.current + 1]

Parser_is_at_end(ps) == Parser_peek(ps).type = "Eof"

previous(ps) == ps.tokens[ps.current]

\* Parser::advance: the state after it; it returns previous() of that state
Parser_advance(ps) ==
    IF ~Parser_is_at_end(ps) THEN [ps EXCEPT !.current = @ + 1] ELSE ps

check(ps, token_type) == ~Parser_is_at_end(ps) /\ Parser_peek(ps).type = token_type

\* Parser::error sites: report and set the bit
ParseError(ps) == [ps EXCEPT !.has_error = TRUE]

\* Parser::consume; the token it returns is previous() of the state after
consume(ps, typ) ==
    IF check(ps, typ) THEN Parsed(Parser_advance(ps), NullS)
    ELSE Failed(ParseError(ps))

\* Parser::is_match
RECURSIVE Parser_is_match(_, _)
Parser_is_match(ps, types) ==
    IF types = <<>> THEN [ok |-> FALSE, ps |-> ps]
    ELSE IF check(ps, Head(types)) THEN [ok |-> TRUE, ps |-> Parser_advance(ps)]
    ELSE Parser_is_match(ps, Tail(types))

SyncKeywords == {"Class", "Fun", "Var", "For", "If", "While", "Print", "Return"}

\* the loop of Parser::synchronize
RECURSIVE SynchronizeLoop(_)
SynchronizeLoop(ps) ==
    IF Parser_is_at_end(ps) THEN ps
    ELSE IF previous(ps).type = "Semicolon" THEN ps
    ELSE IF Parser_peek(ps).type \in SyncKeywords THEN ps
    ELSE SynchronizeLoop(Parser_advance(ps))

\* a synchronize that discards the offending token only
synchronize_once(ps) == Parser_advance(ps)

\* Parser::synchronize
synchronize(ps) == SynchronizeLoop(Parser_advance(ps))

\* the limit of finish_call and function
MaxArgs == 255

\* declaration, statement and expression are reached again from the rules
\* below them; every such call goes through Rule, which dispatches on the
\* function called
RECURSIVE Rule(_, _)

\* self.declaration()
Declaration(ps) == Rule("declaration", ps)

\* self.statement()
Statement(ps) == Rule("statement", ps)

\* self.expression()
Expression(ps) == Rule("expression", ps)

\* the ? operator on a Result: Err returns at once, Ok goes on with K
Try(r, K(_)) == IF r.ok THEN K(r) ELSE r

\* r? followed by self.consume(typ, ..)?, the node of r still in hand
Expect(r, typ) ==
    IF r.ok
    THEN IF check(r.ps, typ) THEN Parsed(Parser_advance(r.ps), r.node)
         ELSE Failed(ParseError(r.ps))
    ELSE r

\* stmts.push(d): the list in r.node with the node of d pushed, at the state
\* d left
Push(r, d) == IF d.ok THEN Parsed(d.ps, Append(r.node, d.node)) ELSE d

RECURSIVE Arguments(_, _), CallLoop(_, _), unary(_), LeftAssoc(_, _), Loops(_, _, _),
          Operand(_, _), assignment(_), Parameters(_, _), BlockLoop(_), ParseLoop(_)

\* Parser::primary: it has no arm for `this` or `super`
primary(ps) ==
    LET t == Parser_peek(ps)
        lit(v) == Parsed(Allocated(Parser_advance(ps)), Literal(NewId(ps), v))
    IN CASE t.type = "True" -> lit(BoolV(TRUE))
         [] t.type = "False" -> lit(BoolV(FALSE))
         [] t.type = "Nil" -> lit(NilV)
         [] t.type = "Number" -> lit(t.literal)
         [] t.type = "StringLiteral" -> lit(t.literal)
         [] t.type = "Identifier" ->
               Parsed(Allocated(Parser_advance(ps)), Variable(NewId(ps), t))
         [] t.type = "LeftParen" ->
               Try(Expression(Parser_advance(ps)), LAMBDA e :
               Try(consume(e.ps, "RightParen"), LAMBDA rp :
               Parsed(Allocated(rp.ps), Grouping(NewId(rp.ps), e.node))))
         [] OTHER -> Failed(ParseError(ps))

\* the loop over the arguments of Parser::finish_call; r.node is the list
Arguments(ps, args) ==
    Try(Expression(IF Len(args) >= MaxArgs THEN ParseError(ps) ELSE ps), LAMBDA a :
    IF check(a.ps, "Comma")
    THEN Arguments(Parser_advance(a.ps), Append(args, a.node))
    ELSE Parsed(a.ps, Append(args, a.node)))

\* Parser::finish_call
finish_call(callee, ps) ==
    Try(IF ~check(ps, "RightParen") THEN Arguments(ps, <<>>) ELSE Parsed(ps, <<>>),
        LAMBDA args :
    Try(consume(args.ps, "RightParen"), LAMBDA rp :
    Parsed(Allocated(rp.ps), Call(NewId(rp.ps), callee, previous(rp.ps), args.node))))

\* the loop of Parser::call: it follows a primary by calls only
CallLoop(expr, ps) ==
    IF ~check(ps, "LeftParen") THEN Parsed(ps, expr)
    ELSE Try(finish_call(expr, Parser_advance(ps)), LAMBDA c : CallLoop(c.node, c.ps))

\* Parser::call
call(ps) == Try(primary(ps), LAMBDA e : CallLoop(e.node, e.ps))

\* Parser::unary
unary(ps) ==
    LET m == Parser_is_match(ps, <<"Bang", "Minus">>)
    IN IF ~m.ok THEN call(ps)
       ELSE Try(unary(m.ps), LAMBDA right :
            Parsed(Allocated(right.ps),
                   Unary(NewId(right.ps), previous(m.ps), right.node)))

\* the functions of the binary levels, from the innermost one outwards
Levels == <<"factor", "term", "comparison", "equality", "and", "or">>

\* the operators a function of the binary levels matches
OperatorsOf(level) ==
    CASE level = "or" -> <<"Or">>
      [] level = "and" -> <<"And">>
      [] level = "equality" -> <<"BangEqual", "EqualEqual">>
      [] level = "comparison" -> <<"Greater", "GreaterEqual", "Less", "LessEqual">>
      [] level = "term" -> <<"Plus", "Minus">>
      [] level = "factor" -> <<"Slash", "Star">>

\* the loop `while self.is_match(..)` of or, and, equality, comparison, term
\* and factor, entered with the left operand r
LeftAssoc(level, r) ==
    LET m == Parser_is_match(r.ps, OperatorsOf(level))
    IN IF r.ok /\ m.ok
       THEN LeftAssoc(level,
                Try(Operand(level, m.ps), LAMBDA right :
                Parsed(Allocated(right.ps),
                       IF level \in {"or", "and"}
                       THEN Logical(NewId(right.ps), r.node, previous(m.ps), right.node)
                       ELSE Binary(NewId(right.ps), r.node, previous(m.ps),
                                   right.node))))
       ELSE r

\* Each function of the binary levels starts by calling the next one, down
\* to unary, before any of their loops runs; the loops then run as the calls
\* return, factor's first.  Loops(i, top, r) runs those of the levels i..top
\* on the result r of the call below level i; an Err passes through them.
Loops(i, top, r) ==
    IF i <= top /\ r.ok THEN Loops(i + 1, top, LeftAssoc(Levels[i], r)) ELSE r

\* Parser::factor
factor(ps) == Loops(1, 1, unary(ps))

\* Parser::term
term(ps) == Loops(1, 2, unary(ps))

\* Parser::comparison
comparison(ps) == Loops(1, 3, unary(ps))

\* Parser::equality
equality(ps) == Loops(1, 4, unary(ps))

\* Parser::and
Parser_and(ps) == Loops(1, 5, unary(ps))

\* Parser::or
Parser_or(ps) == Loops(1, 6, unary(ps))

\* the function a level's right operands are parsed with
Operand(level, ps) ==
    CASE level = "or" -> Parser_and(ps)
      [] level = "and" -> equality(ps)
      [] level = "equality" -> comparison(ps)
      [] level = "comparison" -> term(ps)
      [] level = "term" -> factor(ps)
      [] level = "factor" -> unary(ps)

\* Parser::assignment: its only assignment target is a Variable
assignment(ps) ==
    Try(Parser_or(ps), LAMBDA e :
    IF ~check(e.ps, "Equal") THEN e
    ELSE Try(assignment(Parser_advance(e.ps)), LAMBDA value :
         IF e.node.e = "Variable"
         THEN Parsed(Allocated(value.ps),
                     AssignE(NewId(value.ps), e.node.name, value.node))
         ELSE Failed(ParseError(value.ps))))

\* Parser::expression
expression(ps) == assignment(ps)

\* Parser::expression_statement
expression_statement(ps) ==
    Try(Expression(ps), LAMBDA e :
    Try(consume(e.ps, "Semicolon"), LAMBDA semi :
    Parsed(semi.ps, ExpressionS(e.node))))

\* Parser::print_statement
print_statement(ps) ==
    Try(Expression(ps), LAMBDA e :
    Try(consume(e.ps, "Semicolon"), LAMBDA semi :
    Parsed(semi.ps, PrintS(e.node))))

\* Parser::return_statement
return_statement(ps) ==
    Try(IF check(ps, "Semicolon") THEN Parsed(ps, NullS) ELSE Expression(ps),
        LAMBDA value :
    Try(consume(value.ps, "Semicolon"), LAMBDA semi :
    Parsed(semi.ps, ReturnS(previous(ps), IF check(ps, "Semicolon") THEN <<>>
                                          ELSE <<value.node>>))))

\* Parser::var_declaration
var_declaration(ps) ==
    Try(consume(ps, "Identifier"), LAMBDA n :
    Try(IF check(n.ps, "Equal") THEN Expression(Parser_advance(n.ps))
        ELSE Parsed(n.ps, NullS), LAMBDA init :
    Try(consume(init.ps, "Semicolon"), LAMBDA semi :
    Parsed(semi.ps, VarS(previous(n.ps), IF check(n.ps, "Equal") THEN <<init.node>>
                                         ELSE <<>>)))))

\* the loop over the parameters of Parser::function; r.node is the list
Parameters(ps, parameters) ==
    Try(consume(IF Len(parameters) >= MaxArgs THEN ParseError(ps) ELSE ps,
                "Identifier"), LAMBDA n :
    IF check(n.ps, "Comma")
    THEN Parameters(Parser_advance(n.ps), Append(parameters, previous(n.ps)))
    ELSE Parsed(n.ps, Append(parameters, previous(n.ps))))

\* the loop of Parser::block; r.node is stmts, and r is never an Err, as
\* declaration returns a Stmt
BlockLoop(r) ==
    IF r.ok /\ ~check(r.ps, "RightBrace") /\ ~Parser_is_at_end(r.ps)
    THEN BlockLoop(Push(r, Declaration(r.ps)))
    ELSE r

\* Parser::block
block(ps) == Expect(BlockLoop(Parsed(ps, <<>>)), "RightBrace")

\* Parser::function up to the body: r.node is the name and the parameters
FunctionHeader(ps) ==
    Try(consume(ps, "Identifier"), LAMBDA n :
    Try(consume(n.ps, "LeftParen"), LAMBDA lp :
    Try(IF ~check(lp.ps, "RightParen") THEN Parameters(lp.ps, <<>>)
        ELSE Parsed(lp.ps, <<>>), LAMBDA parameters :
    Try(consume(parameters.ps, "RightParen"), LAMBDA rp :
    Try(consume(rp.ps, "LeftBrace"), LAMBDA lb :
    Parsed(lb.ps, [name |-> previous(n.ps), parameters |-> parameters.node]))))))

\* Parser::function
function(ps) ==
    Try(FunctionHeader(ps), LAMBDA h :
    Try(block(h.ps), LAMBDA body :
    Parsed(body.ps, FunctionS(h.node.name, h.node.parameters, body.node))))

\* `(` expression `)`, the first three lines of Parser::if_statement and of
\* Parser::while_statement; r.node is the expression
Condition(ps) ==
    Try(consume(ps, "LeftParen"), LAMBDA lp :
    Try(Expression(lp.ps), LAMBDA expr :
    Try(consume(expr.ps, "RightParen"), LAMBDA rp :
    Parsed(rp.ps, expr.node))))

\* Parser::if_statement
if_statement(ps) ==
    Try(Condition(ps), LAMBDA expr :
    Try(Statement(expr.ps), LAMBDA if_stmt :
    Try(IF check(if_stmt.ps, "Else") THEN Statement(Parser_advance(if_stmt.ps))
        ELSE Parsed(if_stmt.ps, NullS), LAMBDA else_stmt :
    Parsed(else_stmt.ps,
           IfS(expr.node, if_stmt.node,
               IF check(if_stmt.ps, "Else") THEN <<else_stmt.node>> ELSE <<>>)))))

\* Parser::while_statement
while_statement(ps) ==
    Try(Condition(ps), LAMBDA condition :
    Try(Statement(condition.ps), LAMBDA body :
    Parsed(body.ps, WhileS(condition.node, body.node))))

\* Parser::for_statement up to the body: r.node is the three clauses,
\* increment an Option
ForClauses(ps) ==
    Try(consume(ps, "LeftParen"), LAMBDA lp :
    Try(IF check(lp.ps, "Semicolon") THEN Parsed(Parser_advance(lp.ps), NullS)
        ELSE IF check(lp.ps, "Var") THEN var_declaration(Parser_advance(lp.ps))
        ELSE expression_statement(lp.ps), LAMBDA initializer :
    Try(IF ~check(initializer.ps, "Semicolon") THEN Expression(initializer.ps)
        ELSE Parsed(Allocated(initializer.ps),
                    Literal(NewId(initializer.ps), BoolV(TRUE))), LAMBDA condition :
    Try(consume(condition.ps, "Semicolon"), LAMBDA s1 :
    Try(IF ~check(s1.ps, "RightParen") THEN Expression(s1.ps)
        ELSE Parsed(s1.ps, NullS), LAMBDA increment :
    Try(consume(increment.ps, "RightParen"), LAMBDA rp :
    Parsed(rp.ps, [initializer |-> initializer.node,
                   condition |-> condition.node,
                   increment |-> IF ~check(s1.ps, "RightParen")
                                 THEN <<increment.node>> ELSE <<>>])))))))

\* a for_statement that puts the increment before the body
for_statement_increment_first(ps) ==
    Try(ForClauses(ps), LAMBDA c :
    Try(Statement(c.ps), LAMBDA body :
    Parsed(body.ps,
           BlockS(<<c.node.initializer,
                    WhileS(c.node.condition,
                           IF c.node.increment # <<>>
                           THEN BlockS(<<ExpressionS(c.node.increment[1]),
                                         body.node>>)
                           ELSE body.node)>>))))

\* Parser::for_statement
for_statement(ps) ==
    Try(ForClauses(ps), LAMBDA c :
    Try(Statement(c.ps), LAMBDA body :
    Parsed(body.ps,
           BlockS(<<c.node.initializer,
                    WhileS(c.node.condition,
                           IF c.node.increment # <<>>
                           THEN BlockS(<<body.node,
                                         ExpressionS(c.node.increment[1])>>)
                           ELSE body.node)>>))))

\* Parser::statement
statement(ps) ==
    CASE check(ps, "If") -> if_statement(Parser_advance(ps))
      [] check(ps, "Print") -> print_statement(Parser_advance(ps))
      [] check(ps, "LeftBrace") ->
            Try(block(Parser_advance(ps)), LAMBDA b : Parsed(b.ps, BlockS(b.node)))
      [] check(ps, "While") -> while_statement(Parser_advance(ps))
      [] check(ps, "For") -> for_statement(Parser_advance(ps))
      [] check(ps, "Return") -> return_statement(Parser_advance(ps))
      [] OTHER -> expression_statement(ps)

\* the match on res of Parser::declaration
Recover(res) == IF res.ok THEN res ELSE Parsed(synchronize(res.ps), NullS)

\* Parser::declaration: it has no branch for `class`
declaration(ps) ==
    Recover(CASE check(ps, "Fun") -> function(Parser_advance(ps))
              [] check(ps, "Var") -> var_declaration(Parser_advance(ps))
              [] OTHER -> statement(ps))

\* the dispatch of a call among declaration, statement and expression
Rule(name, ps) ==
    CASE name = "declaration" -> declaration(ps)
      [] name = "statement" -> statement(ps)
      [] name = "expression" -> expression(ps)

\* the loop of Parser::parse; r.node is stmts
ParseLoop(r) ==
    IF r.ok /\ ~Parser_is_at_end(r.ps)
    THEN ParseLoop(Push(r, Declaration(r.ps)))
    ELSE r

\* Parser::parse: the parser after it and the statements
parse(ps) == ParseLoop(Parsed(ps, <<>>))

----------------------------------------------------------------------------
(* Inputs: the source strings handed to Lox::run.                          *)

SrcLexicalScope ==
    "var a = \"global\"; { fun show() { print a; } show(); var a = \"block\"; show(); }"

SrcShadow == "var a = 1; { fun f() { print a; } var a = 2; f(); }"

SrcCounter ==
    "fun makeCounter() { var i = 0; fun count() { i = i + 1; print i; } return count; } "
    \o "var c = makeCounter(); var d = makeCounter(); c(); c(); d();"

SrcBlockError == "var a = 1; { var b = 2; { print a + b; print b + nil; } } print a;"

SrcBlockExits == "fun f() { { return 1; } } print f(); { var a = 1; } { print nil + 1; }"

SrcReturnInLoop ==
    "fun f(n) { while (true) { if (n > 1) return n; n = n + 1; } } print f(0);"

SrcNestedCalls ==
    "fun g() { return 2; } fun f() { var x = g(); print x; return x + 1; } print f();"

SrcNotCallable == "var x = 0; \"text\"(x = 1, x = x + 1); print x;"

SrcArity == "fun f(a) { print a; } f(1); f(); print 2;"

SrcArityMany == "fun f(a) { print a; } f(1, 2);"

SrcClock == "print clock() >= 0; clock(1);"

SrcBagel == "class Bagel { eat() { print \"crunch\"; } } Bagel().eat();"

SrcUnexpectedChar == "var a = 1; print a; @"

SrcUnterminated == "print 1; \"abc"

SrcParseError == "print 1; print ; var b = 2;"

SrcTopReturn == "print 1; return 1;"

SrcOwnInitializer == "var a = 1; { var a = a; print a; }"

SrcRuntimeError == "print 1; \"a\" + 1; print 2;"

SrcSum == "print 1 + 2;"

SrcFor == "for (var i = 0; i < 3; i = i + 1) print i;"

SrcUndefined == "print 1;\nprint y;"

SrcForScope == "for (var i = 0; i < 2; i = i + 1) print i; print i;"

SrcForNoInit == "var i = 0; for (; i < 2; i = i + 1) print i; print i;"

SrcForBare == "fun f() { for (;;) return 1; } print f();"

SrcForOwn == "for (var i = i;;) print i;"

SrcSetField == "var p = 1; p.x = 2;"

SrcShortCircuit ==
    "var n = 0; fun f() { n = n + 1; return n; } print nil or \"x\"; print false and f(); "
    \o "print 0 or f(); print 1 and f(); print nil or f(); print n;"

Sources ==
    <<SrcLexicalScope, SrcShadow, SrcCounter, SrcBlockError, SrcBlockExits,
      SrcReturnInLoop, SrcNestedCalls,
      SrcNotCallable, SrcArity, SrcArityMany, SrcClock, SrcBagel, SrcUnexpectedChar,
      SrcUnterminated, SrcParseError, SrcTopReturn, SrcOwnInitializer,
      SrcRuntimeError, SrcSum, SrcFor, SrcUndefined, SrcSetField,
      SrcShortCircuit, SrcForScope, SrcForNoInit, SrcForBare, SrcForOwn>>

----------------------------------------------------------------------------
(* Programs with classes.  Parser::declaration has no branch for `class`   *)
(* and Parser::primary none for `this` and `super`, so Stmt::Class reaches *)
(* Resolver::resolve and Interpreter::interpret only as a tree built by    *)
(* their caller.  Each program below is given by its text and by the tree  *)
(* the grammar assigns to it, the expressions numbered in the order a      *)
(* parser allocates them, every token on line 1.                           *)

Ident(lexeme) == Token("Identifier", lexeme, 1, NilV)

Op(type, lexeme) == Token(type, lexeme, 1, NilV)

AstBagel ==
    <<ClassS(Ident("Bagel"), <<>>,
             <<FunctionS(Ident("eat"), <<>>, <<PrintS(Literal(1, StringV("crunch")))>>)>>),
      ExpressionS(Call(5,
                       GetE(4,
                            Call(3, Variable(2, Ident("Bagel")), Op("RightParen", ")"),
                                 <<>>), Ident("eat")), Op("RightParen", ")"), <<>>))>>

SrcInitReturn ==
    "class Foo { init() { this.x = 1; return; this.x = 2; } } var f = "
    \o "Foo(); print f.x; var g = f.init(); g.y = 7; print f.y; print Foo();"

AstInitReturn ==
    <<ClassS(Ident("Foo"), <<>>,
             <<FunctionS(Ident("init"), <<>>,
                         <<ExpressionS(SetE(4, ThisE(1, Op("This", "this")),
                                            Ident("x"), Literal(3, NumberV(1, 0)))),
                           ReturnS(Op("Return", "return"), <<>>),
                           ExpressionS(SetE(8, ThisE(5, Op("This", "this")),
                                            Ident("x"), Literal(7, NumberV(2, 0))))>>)>>),
      VarS(Ident("f"),
           <<Call(10, Variable(9, Ident("Foo")), Op("RightParen", ")"), <<>>)>>),
      PrintS(GetE(12, Variable(11, Ident("f")), Ident("x"))),
      VarS(Ident("g"),
           <<Call(15, GetE(14, Variable(13, Ident("f")), Ident("init")),
                  Op("RightParen", ")"), <<>>)>>),
      ExpressionS(SetE(19, Variable(16, Ident("g")), Ident("y"),
                       Literal(18, NumberV(7, 0)))),
      PrintS(GetE(21, Variable(20, Ident("f")), Ident("y"))),
      PrintS(Call(23, Variable(22, Ident("Foo")), Op("RightParen", ")"), <<>>))>>

SrcInitArg ==
    "class Bar { init(a) { this.a = a; } } var b = Bar(3); print b.a; print"
    \o " b.init(4).a;"

AstInitArg ==
    <<ClassS(Ident("Bar"), <<>>,
             <<FunctionS(Ident("init"), <<Ident("a")>>,
                         <<ExpressionS(SetE(4, ThisE(1, Op("This", "this")),
                                            Ident("a"), Variable(3, Ident("a"))))>>)>>),
      VarS(Ident("b"),
           <<Call(7, Variable(5, Ident("Bar")), Op("RightParen", ")"),
                  <<Literal(6, NumberV(3, 0))>>)>>),
      PrintS(GetE(9, Variable(8, Ident("b")), Ident("a"))),
      PrintS(GetE(14,
                  Call(13, GetE(11, Variable(10, Ident("b")), Ident("init")),
                       Op("RightParen", ")"), <<Literal(12, NumberV(4, 0))>>),
                  Ident("a")))>>

AstArity ==
    <<FunctionS(Ident("f"), <<Ident("a")>>, <<PrintS(Variable(1, Ident("a")))>>),
      ExpressionS(Call(4, Variable(2, Ident("f")), Op("RightParen", ")"),
                       <<Literal(3, NumberV(1, 0))>>)),
      ExpressionS(Call(6, Variable(5, Ident("f")), Op("RightParen", ")"), <<>>)),
      PrintS(Literal(7, NumberV(2, 0)))>>

SrcClassArity == "class P { init(a) { print a; } } P();"

AstClassArity ==
    <<ClassS(Ident("P"), <<>>,
             <<FunctionS(Ident("init"), <<Ident("a")>>,
                         <<PrintS(Variable(1, Ident("a")))>>)>>),
      ExpressionS(Call(3, Variable(2, Ident("P")), Op("RightParen", ")"), <<>>))>>

SrcInheritedArity == "class A { init(a) { print a; } } class B < A {} B(1); B(1, 2);"

AstInheritedArity ==
    <<ClassS(Ident("A"), <<>>,
             <<FunctionS(Ident("init"), <<Ident("a")>>,
                         <<PrintS(Variable(1, Ident("a")))>>)>>),
      ClassS(Ident("B"), <<Variable(2, Ident("A"))>>, <<>>),
      ExpressionS(Call(5, Variable(3, Ident("B")), Op("RightParen", ")"),
                       <<Literal(4, NumberV(1, 0))>>)),
      ExpressionS(Call(9, Variable(6, Ident("B")), Op("RightParen", ")"),
                       <<Literal(7, NumberV(1, 0)), Literal(8, NumberV(2, 0))>>))>>

SrcNoInitArity == "class C {} print C(); C(1);"

AstNoInitArity ==
    <<ClassS(Ident("C"), <<>>, <<>>),
      PrintS(Call(2, Variable(1, Ident("C")), Op("RightParen", ")"), <<>>)),
      ExpressionS(Call(5, Variable(3, Ident("C")), Op("RightParen", ")"),
                       <<Literal(4, NumberV(1, 0))>>))>>

SrcSuperclassLocal ==
    "class A {} { var x = 1; class B < A { m() { print x; } } B().m(); }"

AstSuperclassLocal ==
    <<ClassS(Ident("A"), <<>>, <<>>),
      BlockS(<<VarS(Ident("x"), <<Literal(1, NumberV(1, 0))>>),
               ClassS(Ident("B"), <<Variable(2, Ident("A"))>>,
                      <<FunctionS(Ident("m"), <<>>, <<PrintS(Variable(3, Ident("x")))>>)>>),
               ExpressionS(Call(7,
                                GetE(6,
                                     Call(5, Variable(4, Ident("B")),
                                          Op("RightParen", ")"), <<>>), Ident("m")),
                                Op("RightParen", ")"), <<>>))>>)>>

SrcMethodLocal ==
    "{ var x = 1; class A { m() { print x; print this.v; } } var a = A(); "
    \o "a.v = 5; a.m(); }"

AstMethodLocal ==
    <<BlockS(<<VarS(Ident("x"), <<Literal(1, NumberV(1, 0))>>),
               ClassS(Ident("A"), <<>>,
                      <<FunctionS(Ident("m"), <<>>,
                                  <<PrintS(Variable(2, Ident("x"))),
                                    PrintS(GetE(4, ThisE(3, Op("This", "this")),
                                                Ident("v")))>>)>>),
               VarS(Ident("a"),
                    <<Call(6, Variable(5, Ident("A")), Op("RightParen", ")"), <<>>)>>),
               ExpressionS(SetE(10, Variable(7, Ident("a")), Ident("v"),
                                Literal(9, NumberV(5, 0)))),
               ExpressionS(Call(13, GetE(12, Variable(11, Ident("a")), Ident("m")),
                                Op("RightParen", ")"), <<>>))>>)>>

SrcInitValue == "class Foo { init() { return 1; } }"

AstInitValue ==
    <<ClassS(Ident("Foo"), <<>>,
             <<FunctionS(Ident("init"), <<>>,
                         <<ReturnS(Op("Return", "return"),
                                   <<Literal(1, NumberV(1, 0))>>)>>)>>)>>

SrcSubclassThis ==
    "class A { hi() { print this.n; } } class B < A {} var b = B(); b.n = "
    \o "3; b.hi();"

AstSubclassThis ==
    <<ClassS(Ident("A"), <<>>,
             <<FunctionS(Ident("hi"), <<>>,
                         <<PrintS(GetE(2, ThisE(1, Op("This", "this")), Ident("n")))>>)>>),
      ClassS(Ident("B"), <<Variable(3, Ident("A"))>>, <<>>),
      VarS(Ident("b"),
           <<Call(5, Variable(4, Ident("B")), Op("RightParen", ")"), <<>>)>>),
      ExpressionS(SetE(9, Variable(6, Ident("b")), Ident("n"),
                       Literal(8, NumberV(3, 0)))),
      ExpressionS(Call(12, GetE(11, Variable(10, Ident("b")), Ident("hi")),
                       Op("RightParen", ")"), <<>>))>>

SrcSuperCall ==
    "class A { f() { print \"A\"; } } class B < A { f() { super.f(); print "
    \o "\"B\"; } } B().f();"

AstSuperCall ==
    <<ClassS(Ident("A"), <<>>,
             <<FunctionS(Ident("f"), <<>>, <<PrintS(Literal(1, StringV("A")))>>)>>),
      ClassS(Ident("B"), <<Variable(2, Ident("A"))>>,
             <<FunctionS(Ident("f"), <<>>,
                         <<ExpressionS(Call(4,
                                            SuperE(3, Op("Super", "super"), Ident("f")),
                                            Op("RightParen", ")"), <<>>)),
                           PrintS(Literal(5, StringV("B")))>>)>>),
      ExpressionS(Call(9,
                       GetE(8,
                            Call(7, Variable(6, Ident("B")), Op("RightParen", ")"),
                                 <<>>), Ident("f")), Op("RightParen", ")"), <<>>))>>

SrcReturnNested == "{ if (true) return 1; } while (false) { return; }"

AstReturnNested ==
    <<BlockS(<<IfS(Literal(1, BoolV(TRUE)),
                   ReturnS(Op("Return", "return"), <<Literal(2, NumberV(1, 0))>>),
                   <<>>)>>),
      WhileS(Literal(3, BoolV(FALSE)),
             BlockS(<<ReturnS(Op("Return", "return"), <<>>)>>))>>

SrcInitNestedFun ==
    "class Foo { init() { fun g() { return 1; } this.x = g(); return; } } "
    \o "print Foo().x;"

AstInitNestedFun ==
    <<ClassS(Ident("Foo"), <<>>,
             <<FunctionS(Ident("init"), <<>>,
                         <<FunctionS(Ident("g"), <<>>,
                                     <<ReturnS(Op("Return", "return"),
                                               <<Literal(1, NumberV(1, 0))>>)>>),
                           ExpressionS(SetE(6, ThisE(2, Op("This", "this")),
                                            Ident("x"),
                                            Call(5, Variable(4, Ident("g")),
                                                 Op("RightParen", ")"), <<>>))),
                           ReturnS(Op("Return", "return"), <<>>)>>)>>),
      PrintS(GetE(9, Call(8, Variable(7, Ident("Foo")), Op("RightParen", ")"), <<>>),
                  Ident("x")))>>

SrcMethodReturn == "class A { m() { return 2; } } print A().m();"

AstMethodReturn ==
    <<ClassS(Ident("A"), <<>>,
             <<FunctionS(Ident("m"), <<>>,
                         <<ReturnS(Op("Return", "return"),
                                   <<Literal(1, NumberV(2, 0))>>)>>)>>),
      PrintS(Call(5,
                  GetE(4,
                       Call(3, Variable(2, Ident("A")), Op("RightParen", ")"), <<>>),
                       Ident("m")), Op("RightParen", ")"), <<>>))>>

SrcDuplicateLocal == "{ var a = 1; var a = 2; }"

AstDuplicateLocal ==
    <<BlockS(<<VarS(Ident("a"), <<Literal(1, NumberV(1, 0))>>),
               VarS(Ident("a"), <<Literal(2, NumberV(2, 0))>>)>>)>>

SrcParamRedeclared == "fun f(a) { var a = 1; } f(2);"

AstParamRedeclared ==
    <<FunctionS(Ident("f"), <<Ident("a")>>,
                <<VarS(Ident("a"), <<Literal(1, NumberV(1, 0))>>)>>),
      ExpressionS(Call(4, Variable(2, Ident("f")), Op("RightParen", ")"),
                       <<Literal(3, NumberV(2, 0))>>))>>

SrcGlobalRedeclare == "var a = 1; var a = a; print a;"

AstGlobalRedeclare ==
    <<VarS(Ident("a"), <<Literal(1, NumberV(1, 0))>>),
      VarS(Ident("a"), <<Variable(2, Ident("a"))>>),
      PrintS(Variable(3, Ident("a")))>>

SrcOwnInit == "{ var a = 1; { var a = a; } }"

AstOwnInit ==
    <<BlockS(<<VarS(Ident("a"), <<Literal(1, NumberV(1, 0))>>),
               BlockS(<<VarS(Ident("a"), <<Variable(2, Ident("a"))>>)>>)>>)>>

SrcShadowLocal == "{ var a = 1; { var a = 2; print a; } print a; }"

AstShadowLocal ==
    <<BlockS(<<VarS(Ident("a"), <<Literal(1, NumberV(1, 0))>>),
               BlockS(<<VarS(Ident("a"), <<Literal(2, NumberV(2, 0))>>),
                        PrintS(Variable(3, Ident("a")))>>),
               PrintS(Variable(4, Ident("a")))>>)>>

SrcSelfInherit == "class A < A {}"

AstSelfInherit ==
    <<ClassS(Ident("A"), <<Variable(1, Ident("A"))>>, <<>>)>>

SrcSuperOutside == "super.f();"

AstSuperOutside ==
    <<ExpressionS(Call(2, SuperE(1, Op("Super", "super"), Ident("f")),
                       Op("RightParen", ")"), <<>>))>>

SrcSuperNoSuperclass == "class A { f() { super.f(); } } A().f();"

AstSuperNoSuperclass ==
    <<ClassS(Ident("A"), <<>>,
             <<FunctionS(Ident("f"), <<>>,
                         <<ExpressionS(Call(2,
                                            SuperE(1, Op("Super", "super"), Ident("f")),
                                            Op("RightParen", ")"), <<>>))>>)>>),
      ExpressionS(Call(6,
                       GetE(5,
                            Call(4, Variable(3, Ident("A")), Op("RightParen", ")"),
                                 <<>>), Ident("f")), Op("RightParen", ")"), <<>>))>>

SrcFieldShadows ==
    "class A { m() { return \"method\"; } n() { return \"super\"; } } class B <"
    \o " A {} var b = B(); print b.n(); b.m = \"field\"; print b.m; b.n = 7; "
    \o "print b.n; print b.q;"

AstFieldShadows ==
    <<ClassS(Ident("A"), <<>>,
             <<FunctionS(Ident("m"), <<>>,
                         <<ReturnS(Op("Return", "return"),
                                   <<Literal(1, StringV("method"))>>)>>),
               FunctionS(Ident("n"), <<>>,
                         <<ReturnS(Op("Return", "return"),
                                   <<Literal(2, StringV("super"))>>)>>)>>),
      ClassS(Ident("B"), <<Variable(3, Ident("A"))>>, <<>>),
      VarS(Ident("b"),
           <<Call(5, Variable(4, Ident("B")), Op("RightParen", ")"), <<>>)>>),
      PrintS(Call(8, GetE(7, Variable(6, Ident("b")), Ident("n")),
                  Op("RightParen", ")"), <<>>)),
      ExpressionS(SetE(12, Variable(9, Ident("b")), Ident("m"),
                       Literal(11, StringV("field")))),
      PrintS(GetE(14, Variable(13, Ident("b")), Ident("m"))),
      ExpressionS(SetE(18, Variable(15, Ident("b")), Ident("n"),
                       Literal(17, NumberV(7, 0)))),
      PrintS(GetE(20, Variable(19, Ident("b")), Ident("n"))),
      PrintS(GetE(22, Variable(21, Ident("b")), Ident("q")))>>

SrcSharedFields ==
    "class C { set(v) { this.x = v; } get() { return this.x; } } var a = "
    \o "C(); var b = a; var c = C(); var m = a.get; a.set(1); print b.x; b.x ="
    \o " 2; print m(); c.x = 9; print a.x; print c.x;"

AstSharedFields ==
    <<ClassS(Ident("C"), <<>>,
             <<FunctionS(Ident("set"), <<Ident("v")>>,
                         <<ExpressionS(SetE(4, ThisE(1, Op("This", "this")),
                                            Ident("x"), Variable(3, Ident("v"))))>>),
               FunctionS(Ident("get"), <<>>,
                         <<ReturnS(Op("Return", "return"),
                                   <<GetE(6, ThisE(5, Op("This", "this")), Ident("x"))>>)>>)>>),
      VarS(Ident("a"),
           <<Call(8, Variable(7, Ident("C")), Op("RightParen", ")"), <<>>)>>),
      VarS(Ident("b"), <<Variable(9, Ident("a"))>>),
      VarS(Ident("c"),
           <<Call(11, Variable(10, Ident("C")), Op("RightParen", ")"), <<>>)>>),
      VarS(Ident("m"), <<GetE(13, Variable(12, Ident("a")), Ident("get"))>>),
      ExpressionS(Call(17, GetE(15, Variable(14, Ident("a")), Ident("set")),
                       Op("RightParen", ")"), <<Literal(16, NumberV(1, 0))>>)),
      PrintS(GetE(19, Variable(18, Ident("b")), Ident("x"))),
      ExpressionS(SetE(23, Variable(20, Ident("b")), Ident("x"),
                       Literal(22, NumberV(2, 0)))),
      PrintS(Call(25, Variable(24, Ident("m")), Op("RightParen", ")"), <<>>)),
      ExpressionS(SetE(29, Variable(26, Ident("c")), Ident("x"),
                       Literal(28, NumberV(9, 0)))),
      PrintS(GetE(31, Variable(30, Ident("a")), Ident("x"))),
      PrintS(GetE(33, Variable(32, Ident("c")), Ident("x")))>>

SrcInstanceEq ==
    "class A {} var x = A(); var y = x; var z = A(); print x == x; print x "
    \o "!= x; print x == y; print x == z; var k = A; class A { m() {} } print "
    \o "k == A; fun f() {} var g = f; fun f() { return 1; } print g == f; "
    \o "print g != f; fun h() {} print f == h;"

AstInstanceEq ==
    <<ClassS(Ident("A"), <<>>, <<>>),
      VarS(Ident("x"),
           <<Call(2, Variable(1, Ident("A")), Op("RightParen", ")"), <<>>)>>),
      VarS(Ident("y"), <<Variable(3, Ident("x"))>>),
      VarS(Ident("z"),
           <<Call(5, Variable(4, Ident("A")), Op("RightParen", ")"), <<>>)>>),
      PrintS(Binary(8, Variable(6, Ident("x")), Op("EqualEqual", "=="),
                    Variable(7, Ident("x")))),
      PrintS(Binary(11, Variable(9, Ident("x")), Op("BangEqual", "!="),
                    Variable(10, Ident("x")))),
      PrintS(Binary(14, Variable(12, Ident("x")), Op("EqualEqual", "=="),
                    Variable(13, Ident("y")))),
      PrintS(Binary(17, Variable(15, Ident("x")), Op("EqualEqual", "=="),
                    Variable(16, Ident("z")))),
      VarS(Ident("k"), <<Variable(18, Ident("A"))>>),
      ClassS(Ident("A"), <<>>, <<FunctionS(Ident("m"), <<>>, <<>>)>>),
      PrintS(Binary(21, Variable(19, Ident("k")), Op("EqualEqual", "=="),
                    Variable(20, Ident("A")))),
      FunctionS(Ident("f"), <<>>, <<>>),
      VarS(Ident("g"), <<Variable(22, Ident("f"))>>),
      FunctionS(Ident("f"), <<>>,
                <<ReturnS(Op("Return", "return"), <<Literal(23, NumberV(1, 0))>>)>>),
      PrintS(Binary(26, Variable(24, Ident("g")), Op("EqualEqual", "=="),
                    Variable(25, Ident("f")))),
      PrintS(Binary(29, Variable(27, Ident("g")), Op("BangEqual", "!="),
                    Variable(28, Ident("f")))),
      FunctionS(Ident("h"), <<>>, <<>>),
      PrintS(Binary(32, Variable(30, Ident("f")), Op("EqualEqual", "=="),
                    Variable(31, Ident("h"))))>>


Programs ==
    <<[source |-> SrcBagel, stmts |-> AstBagel],
      [source |-> SrcInitReturn, stmts |-> AstInitReturn],
      [source |-> SrcInitArg, stmts |-> AstInitArg],
      [source |-> SrcArity, stmts |-> AstArity],
      [source |-> SrcClassArity, stmts |-> AstClassArity],
      [source |-> SrcInheritedArity, stmts |-> AstInheritedArity],
      [source |-> SrcNoInitArity, stmts |-> AstNoInitArity],
      [source |-> SrcSuperclassLocal, stmts |-> AstSuperclassLocal],
      [source |-> SrcMethodLocal, stmts |-> AstMethodLocal],
      [source |-> SrcInitValue, stmts |-> AstInitValue],
      [source |-> SrcSubclassThis, stmts |-> AstSubclassThis],
      [source |-> SrcSuperCall, stmts |-> AstSuperCall],
      [source |-> SrcReturnNested, stmts |-> AstReturnNested],
      [source |-> SrcInitNestedFun, stmts |-> AstInitNestedFun],
      [source |-> SrcMethodReturn, stmts |-> AstMethodReturn],
      [source |-> SrcDuplicateLocal, stmts |-> AstDuplicateLocal],
      [source |-> SrcParamRedeclared, stmts |-> AstParamRedeclared],
      [source |-> SrcGlobalRedeclare, stmts |-> AstGlobalRedeclare],
      [source |-> SrcOwnInit, stmts |-> AstOwnInit],
      [source |-> SrcShadowLocal, stmts |-> AstShadowLocal],
      [source |-> SrcSelfInherit, stmts |-> AstSelfInherit],
      [source |-> SrcSuperOutside, stmts |-> AstSuperOutside],
      [source |-> SrcSuperNoSuperclass, stmts |-> AstSuperNoSuperclass],
      [source |-> SrcFieldShadows, stmts |-> AstFieldShadows],
      [source |-> SrcSharedFields, stmts |-> AstSharedFields],
      [source |-> SrcInstanceEq, stmts |-> AstInstanceEq]>>

\* the readings the system clock gives a run, in milliseconds
ClockReadings == {1000, 2000}

----------------------------------------------------------------------------
(* The driver (main.rs): Lox::run, one step per call it makes.             *)

NoResult == [k |-> "Ok", msg |-> "", line |-> 0]

Outcome(r) == [k |-> r.k, msg |-> r.msg, line |-> r.line]

\* main with one argument: Lox::new(), then run_file hands the file to run
Init ==
    /\ pc = "scan"
    /\ source \in {Sources[i] : i \in 1..Len(Sources)}
    /\ scanner = Scanner_new(source)
    /\ tokens = <<>>
    /\ scan_error = FALSE
    /\ parser = Parser_new(<<>>, 1)
    /\ stmts = <<>>
    /\ parse_error = FALSE
    /\ res_error = FALSE
    /\ interp \in {Interpreter_new(c) : c \in ClockReadings}
    /\ next_stmt = 1
    /\ result = NoResult
    /\ code = -1

\* Scanner::scan_tokens, one turn of its loop: start = current; scan_token()
ScanToken ==
    /\ pc = "scan"
    /\ ~Scanner_is_at_end(scanner)
    /\ scanner' = scan_token([scanner EXCEPT !.start = scanner.source_current])
    /\ UNCHANGED <<parser, pc, source, tokens, scan_error, stmts, parse_error, res_error,
                   interp, next_stmt, result, code>>

\* Scanner::scan_tokens after its loop: the Eof token; main.rs:59-60 takes the
\* tokens and the scanner's has_error
ScanEof ==
    /\ pc = "scan"
    /\ Scanner_is_at_end(scanner)
    /\ scanner' = [scanner EXCEPT !.tokens = Append(@, Token("Eof", "", scanner.line, NilV))]
    /\ tokens' = scanner'.tokens
    /\ scan_error' = scanner.has_error
    /\ pc' = "parse"
    /\ UNCHANGED <<parser, source, stmts, parse_error, res_error, interp, next_stmt,
                   result, code>>

\* main.rs:62-63: parser.parse()
Parse ==
    /\ pc = "parse"
    /\ LET p == parse(Parser_new(tokens, 1))
       IN /\ parser' = p.ps
          /\ stmts' = p.node
          /\ parse_error' = p.ps.has_error
    /\ pc' = "parsed"
    /\ UNCHANGED <<source, scanner, tokens, scan_error, res_error, interp, next_stmt,
                   result, code>>

\* main.rs:65-67: a scanner or parser error ends the run
RejectSyntax ==
    /\ pc = "parsed"
    /\ parse_error \/ scan_error
    /\ pc' = "returned"
    /\ code' = 65
    /\ UNCHANGED <<parser, source, scanner, tokens, scan_error, stmts, parse_error, res_error,
                   interp, next_stmt, result>>

\* main.rs:69-70: resolver.resolve(&stmts)
Resolve ==
    /\ pc = "parsed"
    /\ ~(parse_error \/ scan_error)
    /\ LET rs == Resolver_resolve(stmts, 1, Resolver_new(interp))
       IN /\ interp' = rs.interpreter
          /\ res_error' = rs.has_error
    /\ pc' = "resolved"
    /\ UNCHANGED <<parser, source, scanner, tokens, scan_error, stmts, parse_error, next_stmt,
                   result, code>>

\* main.rs:71-73: a resolver error ends the run
RejectResolve ==
    /\ pc = "resolved"
    /\ res_error
    /\ pc' = "returned"
    /\ code' = 65
    /\ UNCHANGED <<parser, source, scanner, tokens, scan_error, stmts, parse_error, res_error,
                   interp, next_stmt, result>>

\* Interpreter::interpret: one turn of its loop, self.execute(stmt)?
Interpret ==
    /\ pc \in {"resolved", "interpret"}
    /\ ~res_error
    /\ next_stmt <= Len(stmts)
    /\ LET r == Exec(stmts[next_stmt], interp)
       IN /\ interp' = r.st
          /\ result' = Outcome(r)
          /\ pc' = IF r.k = "Ok" THEN "interpret" ELSE "raised"
    /\ next_stmt' = next_stmt + 1
    /\ UNCHANGED <<parser, source, scanner, tokens, scan_error, stmts, parse_error, res_error, code>>

\* a runtime error reported with the exit code of a syntax error
Fail_as_syntax ==
    /\ pc = "raised"
    /\ IF result.k = "RuntimeError"
       THEN pc' = "returned" /\ code' = 65
       ELSE pc' = "panicked" /\ code' = code
    /\ UNCHANGED <<parser, source, scanner, tokens, scan_error, stmts, parse_error, res_error,
                   interp, next_stmt, result>>

\* main.rs:75-78: interpret returned Err(e); e.error() reports a RuntimeError
\* and is unreachable!() for a Return
Fail ==
    /\ pc = "raised"
    /\ IF result.k = "RuntimeError"
       THEN pc' = "returned" /\ code' = 70
       ELSE pc' = "panicked" /\ code' = code
    /\ UNCHANGED <<parser, source, scanner, tokens, scan_error, stmts, parse_error, res_error,
                   interp, next_stmt, result>>

\* main.rs:79: interpret returned Ok(())
Succeed ==
    /\ pc \in {"resolved", "interpret"}
    /\ ~res_error
    /\ next_stmt > Len(stmts)
    /\ pc' = "returned"
    /\ code' = 0
    /\ UNCHANGED <<parser, source, scanner, tokens, scan_error, stmts, parse_error, res_error,
                   interp, next_stmt, result>>

Next ==
    \/ ScanToken
    \/ ScanEof
    \/ Parse
    \/ RejectSyntax
    \/ Resolve
    \/ RejectResolve
    \/ Interpret
    \/ Fail
    \/ Succeed

Spec == Init /\ [][Next]_vars

----------------------------------------------------------------------------
(* Resolver::resolve and Interpreter::interpret on the programs with       *)
(* classes: Lox::run from main.rs:69 on, stmts being one of the trees.     *)

InitAst ==
    /\ pc = "parsed"
    /\ \E i \in 1..Len(Programs) :
          /\ source = Programs[i].source
          /\ stmts = Programs[i].stmts
    /\ scanner = Scanner_new(source)
    /\ tokens = <<>>
    /\ scan_error = FALSE
    /\ parser = Parser_new(<<>>, 1)
    /\ parse_error = FALSE
    /\ res_error = FALSE
    /\ interp \in {Interpreter_new(c) : c \in ClockReadings}
    /\ next_stmt = 1
    /\ result = NoResult
    /\ code = -1

NextAst ==
    \/ Resolve
    \/ RejectResolve
    \/ Interpret
    \/ Fail
    \/ Succeed

SpecAst == InitAst /\ [][NextAst]_vars

----------------------------------------------------------------------------
(* Parser::parse on token lists: main.rs:61-63 for any list of tokens the  *)
(* scanner can hand over, one step per turn of the loop of parse.          *)

\* the longest token list, its Eof not counted
MaxTokens == 4

\* the tokens the lists are made of
TokenAlphabet ==
    {Op("Semicolon", ";"), Op("Print", "print"), Op("Var", "var"), Ident("a"),
     Op("Equal", "="), Token("Number", "1", 1, NumberV(1, 0)),
     Op("LeftBrace", "{"), Op("RightBrace", "}")}

TokenLists ==
    UNION {[1..n -> TokenAlphabet] : n \in 0..MaxTokens}

InitParse ==
    /\ pc = "parse"
    /\ source = ""
    /\ scanner = Scanner_new(source)
    /\ tokens \in {Append(ts, Op("Eof", "")) : ts \in TokenLists}
    /\ scan_error = FALSE
    /\ parser = Parser_new(<<>>, 1)
    /\ stmts = <<>>
    /\ parse_error = FALSE
    /\ res_error = FALSE
    /\ interp = Interpreter_new(1000)
    /\ next_stmt = 1
    /\ result = NoResult
    /\ code = -1

\* main.rs:62: Parser::new(tokens)
NewParser ==
    /\ pc = "parse"
    /\ parser' = Parser_new(tokens, 1)
    /\ pc' = "parsing"
    /\ UNCHANGED <<source, scanner, tokens, scan_error, stmts, parse_error, res_error,
                   interp, next_stmt, result, code>>

\* Parser::parse, one turn of its loop: stmts.push(self.declaration())
ParseDeclaration ==
    /\ pc = "parsing"
    /\ ~Parser_is_at_end(parser)
    /\ LET d == Declaration(parser)
       IN /\ parser' = d.ps
          /\ stmts' = Append(stmts, d.node)
    /\ UNCHANGED <<pc, source, scanner, tokens, scan_error, parse_error, res_error,
                   interp, next_stmt, result, code>>

\* Parser::parse after its loop; main.rs:63-65 takes the statements and the
\* parser's has_error
ParseEnd ==
    /\ pc = "parsing"
    /\ Parser_is_at_end(parser)
    /\ parse_error' = parser.has_error
    /\ pc' = "parsed"
    /\ UNCHANGED <<source, scanner, tokens, scan_error, parser, stmts, res_error,
                   interp, next_stmt, result, code>>

NextParse ==
    \/ NewParser
    \/ ParseDeclaration
    \/ ParseEnd

SpecParse == InitParse /\ [][NextParse]_vars

----------------------------------------------------------------------------
(* Scanner::scan_tokens on any source: main.rs:59-60 for the strings of up *)
(* to MaxChars characters, one step per turn of the loop of scan_tokens.   *)

\* the longest source, in characters
MaxChars == 4

\* the characters the sources are made of
SourceChars == {"\"", "@", "a", "1", ".", " ", "/", "\n"}

RECURSIVE StringsUpTo(_)
StringsUpTo(n) ==
    IF n = 0 THEN {""}
    ELSE LET shorter == StringsUpTo(n - 1)
         IN shorter \cup {s \o c : s \in shorter, c \in SourceChars}

InitScan ==
    /\ pc = "scan"
    /\ source \in StringsUpTo(MaxChars)
    /\ scanner = Scanner_new(source)
    /\ tokens = <<>>
    /\ scan_error = FALSE
    /\ parser = Parser_new(<<>>, 1)
    /\ stmts = <<>>
    /\ parse_error = FALSE
    /\ res_error = FALSE
    /\ interp = Interpreter_new(1000)
    /\ next_stmt = 1
    /\ result = NoResult
    /\ code = -1

NextScan ==
    \/ ScanToken
    \/ ScanEof

SpecScan == InitScan /\ [][NextScan]_vars

----------------------------------------------------------------------------
(* Resolver::resolve run twice: Lox::run up to main.rs:70 on a source, or  *)
(* from main.rs:69 on the tree of a program with classes, and then the     *)
(* resolver once more, a new Resolver on the same tree and interpreter.    *)

InitResolve == Init \/ InitAst

\* Resolver::new(&mut interpreter).resolve(&stmts), a second time
ResolveAgain ==
    /\ pc = "resolved"
    /\ LET rs == Resolver_resolve(stmts, 1, Resolver_new(interp))
       IN /\ interp' = rs.interpreter
          /\ res_error' = rs.has_error
    /\ pc' = "resolved again"
    /\ UNCHANGED <<source, scanner, tokens, scan_error, parser, stmts, parse_error,
                   next_stmt, result, code>>

NextResolve ==
    \/ ScanToken
    \/ ScanEof
    \/ Parse
    \/ RejectSyntax
    \/ Resolve
    \/ ResolveAgain

SpecResolve == InitResolve /\ [][NextResolve]_vars

----------------------------------------------------------------------------
(* Environment on its own: assign, assign_at and get_at on any chain of    *)
(* frames, and Expr::Assign evaluated in it.  Frame 1 is the globals, each *)
(* later frame encloses the one before it, and the frame the operation is  *)
(* called on is any of them, so that the later frames are frames outside   *)
(* its chain.  A name is bound in frame i to the number i.                 *)

\* the longest chain of frames
MaxFrames == 3

\* the names the frames bind
EnvNames == {"a", "b"}

\* the value assigned
Assigned == NumberV(9, 0)

Frames(doms) ==
    [i \in 1..Len(doms) |->
        [values |-> LET own == [x \in doms[i] |-> NumberV(i, 0)]
                    IN IF i = 1 THEN Put(own, "clock", CallableV(NativeClock)) ELSE own,
         enclosing |-> i - 1]]

InitEnv ==
    /\ pc = "env"
    /\ source = ""
    /\ scanner = Scanner_new(source)
    /\ tokens = <<>>
    /\ scan_error = FALSE
    /\ parser = Parser_new(<<>>, 1)
    /\ stmts = <<>>
    /\ parse_error = FALSE
    /\ res_error = FALSE
    /\ \E n \in 1..MaxFrames : \E doms \in [1..n -> SUBSET EnvNames] :
          interp = [Interpreter_new(0) EXCEPT !.envs = Frames(doms)]
    /\ next_stmt = 1
    /\ result = NoResult
    /\ code = -1

\* what an operation was called with, the frames before it, and what it gave
Applied(op, e, dist, name, k, v, msg) ==
    [op |-> op, e |-> e, dist |-> dist, name |-> name, before |-> interp.envs,
     k |-> k, v |-> v, msg |-> msg, line |-> 0]

\* env.assign(&token, val)
EnvAssign ==
    /\ pc = "env"
    /\ \E e \in 1..Len(interp.envs) : \E name \in EnvNames :
          LET w == Env_assign(interp.envs, e, Ident(name), Assigned)
          IN /\ interp' = [interp EXCEPT !.envs = w.envs]
             /\ result' = IF w.ok THEN Applied("assign", e, 0, name, "Ok", NilV, "")
                           ELSE Applied("assign", e, 0, name, "RuntimeError", NilV,
                                        UndefinedVariable(Ident(name)))
    /\ pc' = "done"
    /\ UNCHANGED <<source, scanner, tokens, scan_error, parser, stmts, parse_error,
                   res_error, next_stmt, code>>

\* env.assign_at(dist, &token, val), the frame dist links up being there
EnvAssignAt ==
    /\ pc = "env"
    /\ \E e \in 1..Len(interp.envs) : \E dist \in 0..MaxFrames : \E name \in EnvNames :
          /\ FrameAt(interp.envs, e, dist) # 0
          /\ LET w == Env_assign_at(interp.envs, e, dist, Ident(name), Assigned)
             IN /\ interp' = [interp EXCEPT !.envs = w.envs]
                /\ result' = Applied("assign_at", e, dist, name,
                                      IF w.ok THEN "Ok" ELSE "Panic", NilV, "")
    /\ pc' = "done"
    /\ UNCHANGED <<source, scanner, tokens, scan_error, parser, stmts, parse_error,
                   res_error, next_stmt, code>>

\* env.get_at(dist, &token), the frame dist links up binding the name
EnvGetAt ==
    /\ pc = "env"
    /\ \E e \in 1..Len(interp.envs) : \E dist \in 0..MaxFrames : \E name \in EnvNames :
          /\ DefinedAt(interp.envs, e, dist, name)
          /\ LET r == Env_get_at(interp.envs, e, dist, Ident(name))
             IN result' = Applied("get_at", e, dist, name,
                                  IF r.ok THEN "Ok" ELSE "Panic", r.v, "")
    /\ pc' = "done"
    /\ UNCHANGED <<source, scanner, tokens, scan_error, parser, stmts, parse_error,
                   res_error, interp, next_stmt, code>>

\* evaluate(Expr::Assign) with frame e the current one: the expression has
\* no entry in locals, or the depth of a frame of the chain
EvaluateAssign ==
    /\ pc = "env"
    /\ \E e \in 1..Len(interp.envs) : \E name \in EnvNames :
       \E dist \in -1..MaxFrames :
          /\ dist >= 0 => FrameAt(interp.envs, e, dist) # 0
          /\ LET expr == AssignE(1, Ident(name), Literal(2, Assigned))
                 st == [interp EXCEPT !.env = e,
                                      !.locals = IF dist >= 0 THEN Put(@, 1, dist) ELSE @]
                 r == Eval(expr, st)
             IN /\ interp' = r.st
                /\ result' = Applied(IF dist >= 0 THEN "assign local" ELSE "assign global",
                                      IF dist >= 0 THEN e ELSE interp.globals,
                                      Max(dist, 0), name, r.k, r.v, r.msg)
    /\ pc' = "done"
    /\ UNCHANGED <<source, scanner, tokens, scan_error, parser, stmts, parse_error,
                   res_error, next_stmt, code>>

NextEnv ==
    \/ EnvAssign
    \/ EnvAssignAt
    \/ EnvGetAt
    \/ EvaluateAssign

SpecEnv == InitEnv /\ [][NextEnv]_vars

----------------------------------------------------------------------------
(* The prompt: Lox::run_prompt (main.rs:31-50) hands line after line to    *)
(* Lox::run, all on the one interpreter of Lox::new.  The trees of a line  *)
(* are dropped when run returns, so that the nodes of the next line can be *)
(* allocated at the same addresses: the parser of a line starts at address *)
(* 1 again, or past every address used so far.  Addresses are used again   *)
(* only while no function, class or instance holds nodes of earlier lines. *)
(* A first line with a class declaration is given as a tree.               *)

\* the lines read before the end of the input
MaxLines == 2

ReplDefine == "var a = 1; { var b = 2; { print b; } }"

ReplPrint == "var d = 4; print a; print d;"

ReplError == "var a = 1; { { print -\"x\"; } }"

ReplCall == "var a = 1; fun f() { while (true) { print nil < 1; } } f();"

ReplReturn == "{ var b = 2; { print b; } return 1; }"

ReplSyntax == "print (a;"

ReplLines == {ReplDefine, ReplPrint, ReplError, ReplCall, ReplReturn, ReplSyntax}

SrcReplInit == "var a = 1; class A { init() { { print -\"x\"; } } } A();"

AstReplInit ==
    <<VarS(Ident("a"), <<Literal(1, NumberV(1, 0))>>),
      ClassS(Ident("A"), <<>>,
             <<FunctionS(Ident("init"), <<>>,
                         <<BlockS(<<PrintS(Unary(3, Op("Minus", "-"),
                                                 Literal(2, StringV("x"))))>>)>>)>>),
      ExpressionS(Call(5, Variable(4, Ident("A")), Op("RightParen", ")"), <<>>))>>

SrcReplClass == "var a = 1; class B < a {}"

AstReplClass ==
    <<VarS(Ident("a"), <<Literal(1, NumberV(1, 0))>>),
      ClassS(Ident("B"), <<Variable(2, Ident("a"))>>, <<>>)>>

SrcReplMethod ==
    "var a = 1; class A {} class B < A { m() { { print -\"x\"; } } } B().m();"

AstReplMethod ==
    <<VarS(Ident("a"), <<Literal(1, NumberV(1, 0))>>),
      ClassS(Ident("A"), <<>>, <<>>),
      ClassS(Ident("B"), <<Variable(2, Ident("A"))>>,
             <<FunctionS(Ident("m"), <<>>,
                         <<BlockS(<<PrintS(Unary(4, Op("Minus", "-"),
                                                 Literal(3, StringV("x"))))>>)>>)>>),
      ExpressionS(Call(8,
                       GetE(7,
                            Call(6, Variable(5, Ident("B")), Op("RightParen", ")"),
                                 <<>>), Ident("m")), Op("RightParen", ")"), <<>>))>>

\* the first lines given as trees, with the number of their nodes
ReplTrees ==
    {[source |-> SrcReplInit, stmts |-> AstReplInit, nodes |-> 5],
     [source |-> SrcReplClass, stmts |-> AstReplClass, nodes |-> 2],
     [source |-> SrcReplMethod, stmts |-> AstReplMethod, nodes |-> 7]}

\* whether a value of some frame keeps nodes of a line alive
CodeHeld(st) ==
    \E e \in 1..Len(st.envs) : \E n \in DOMAIN st.envs[e].values :
        LET v == st.envs[e].values[n]
        IN \/ v.t \in {"Class", "Instance"}
           \/ v.t = "Callable" /\ ~v.fn.native

\* the lines read so far
LinesRead(st) == Len(SelectSeq(st.log, LAMBDA ev : ev.k = "Line"))

InitRepl ==
    /\ scan_error = FALSE
    /\ parse_error = FALSE
    /\ res_error = FALSE
    /\ next_stmt = 1
    /\ result = NoResult
    /\ code = -1
    /\ tokens = <<>>
    /\ \/ /\ source \in ReplLines
          /\ pc = "scan"
          /\ parser = Parser_new(<<>>, 1)
          /\ stmts = <<>>
          /\ interp = Observe(Interpreter_new(0), Event("Line", 1, 0, 0, source))
       \/ \E tree \in ReplTrees :
             /\ source = tree.source
             /\ pc = "parsed"
             /\ parser = Parser_new(<<>>, tree.nodes + 1)
             /\ stmts = tree.stmts
             /\ interp = Observe(Observe(Interpreter_new(0),
                                         Event("Line", 1, 0, 0, source)),
                                 Event("Parsed", 1, tree.nodes + 1, 0, ""))
    /\ scanner = Scanner_new(source)

\* main.rs:38-41: the next line is read and handed to run (main.rs:58-59)
ReadLine ==
    /\ pc = "returned"
    /\ LinesRead(interp) < MaxLines
    /\ source' \in ReplLines
    /\ scanner' = Scanner_new(source')
    /\ tokens' = <<>>
    /\ scan_error' = FALSE
    /\ stmts' = <<>>
    /\ parse_error' = FALSE
    /\ res_error' = FALSE
    /\ next_stmt' = 1
    /\ result' = NoResult
    /\ code' = -1
    /\ interp' = Observe(interp, Event("Line", LinesRead(interp) + 1, 0, 0, source'))
    /\ pc' = "scan"
    /\ UNCHANGED parser

\* main.rs:61-63: parser.parse(), its nodes at the addresses from base on
ParseLine ==
    /\ pc = "parse"
    /\ \E base \in {parser.next_id} \cup (IF CodeHeld(interp) THEN {} ELSE {1}) :
          LET p == parse(Parser_new(tokens, base))
          IN /\ parser' = [p.ps EXCEPT !.next_id = Max(@, parser.next_id)]
             /\ stmts' = p.node
             /\ parse_error' = p.ps.has_error
             /\ interp' = Observe(interp, Event("Parsed", base, p.ps.next_id, 0, ""))
    /\ pc' = "parsed"
    /\ UNCHANGED <<source, scanner, tokens, scan_error, res_error, next_stmt,
                   result, code>>

NextRepl ==
    \/ ScanToken
    \/ ScanEof
    \/ ParseLine
    \/ RejectSyntax
    \/ Resolve
    \/ RejectResolve
    \/ Interpret
    \/ Fail
    \/ Succeed
    \/ ReadLine

SpecRepl == InitRepl /\ [][NextRepl]_vars

----------------------------------------------------------------------------
(* Properties.                                                             *)

\* the observations of one kind in the log
Events(kind) == {i \in 1..Len(interp.log) : interp.log[i].k = kind}

\* the value the globals hold for a name, nil when they hold none
Global(name) ==
    IF Has(interp.envs[interp.globals].values, name)
    THEN interp.envs[interp.globals].values[name]
    ELSE NilV

\* the run is over: interpret raised, run returned, or the process panicked
Ended == pc \in {"raised", "returned", "panicked"}

\* C1: a function declared in a block reads the binding of `a` that was in
\* scope at its declaration: the two programs of the claim print the global
\* value at every call, before and after the block declares its own `a`, and
\* exit with 0.
LexicalScope ==
    /\ (source = SrcLexicalScope /\ Ended) =>
          /\ pc = "returned"
          /\ code = 0
          /\ interp.out = <<"global", "global">>
    /\ (source = SrcShadow /\ Ended) =>
          /\ pc = "returned"
          /\ code = 0
          /\ interp.out = <<"1">>

LexicalScopeReached ==
    /\ source = SrcLexicalScope
    /\ pc = "returned"
    /\ Len(interp.out) = 2
    /\ \E i \in Events("Invoke") : interp.log[i].out = 1

\* C2: a function keeps the frame that was current when its declaration was
\* executed, and the frame outlives the call that made it: the counter of
\* makeCounter prints 1 then 2, a second counter prints 1, and at the end the
\* two count functions hold different frames, neither the globals, the first
\* with i = 2 and the second with i = 1.
ClosureCapture ==
    (source = SrcCounter /\ Ended) =>
        /\ pc = "returned"
        /\ code = 0
        /\ interp.out = <<"1", "2", "1">>
        /\ Global("c").t = "Callable"
        /\ Global("d").t = "Callable"
        /\ Global("c").fn.closure # Global("d").fn.closure
        /\ Global("c").fn.closure # interp.globals
        /\ Global("d").fn.closure # interp.globals
        /\ interp.envs[Global("c").fn.closure].values["i"] = NumberV(2, 0)
        /\ interp.envs[Global("d").fn.closure].values["i"] = NumberV(1, 0)

ClosureCaptureReached ==
    /\ source = SrcCounter
    /\ pc = "returned"
    /\ interp.calls = 5
    /\ Len(interp.out) = 3

\* C3: after every call of execute_block that completes normally, raises a
\* runtime error or propagates a Return, the current env is the frame that was
\* current before the call.
BlockRestoresEnv ==
    \A i \in Events("Block") :
        interp.log[i].s \in {"Ok", "RuntimeError", "Return"} =>
            interp.log[i].a = interp.log[i].b

BlockRestoresEnvReached ==
    /\ source = SrcBlockExits
    /\ \A kind \in {"Ok", "RuntimeError", "Return"} :
          \E i \in Events("Block") : interp.log[i].s = kind
    /\ \E i \in Events("Block") : interp.log[i].a # interp.globals

\* C4: in a program the resolver accepts, wherever a recorded depth d is used
\* to evaluate a Variable, Assign, This or Super expression, the frame d links
\* up from the current env exists and defines the expression's name.
ResolvedDepthDefined ==
    ~res_error =>
        \A i \in Events("Resolved") : interp.log[i].c = 1

\* C5: a Return is caught by the call at whose depth it was raised, and
\* interpret never hands a Return to its caller; the nested calls of
\* SrcNestedCalls and the return from inside a loop of SrcReturnInLoop give
\* their values to the callers.
ReturnCaughtByNearestCall ==
    /\ result.k # "Return"
    /\ \A i \in Events("Caught") : interp.log[i].a = interp.log[i].b
    /\ (source = SrcNestedCalls /\ Ended) =>
          pc = "returned" /\ code = 0 /\ interp.out = <<"2", "3">>
    /\ (source = SrcReturnInLoop /\ Ended) =>
          pc = "returned" /\ code = 0 /\ interp.out = <<"2">>

ReturnCaughtReached ==
    /\ source = SrcNestedCalls
    /\ pc = "returned"
    /\ Cardinality(Events("Caught")) = 2
    /\ \E i \in Events("Caught") : interp.log[i].b = 2

\* C6: a call of a class yields the instance the call created, and a call of
\* a bound init yields the instance it is bound to, whether init runs to its
\* end or executes `return;`: in SrcInitReturn f is an instance of Foo whose x
\* is 1, f.init() is f itself (a field set through g is read through f), and
\* Foo() prints as an instance.
InitYieldsInstance ==
    /\ \A i \in Events("Yielded") :
          /\ interp.log[i].a # 0
          /\ interp.log[i].a = interp.log[i].b
          /\ interp.log[i].c = 1
    /\ (source = SrcInitReturn /\ Ended) =>
          /\ pc = "returned"
          /\ code = 0
          /\ interp.out = <<"1", "7", "Foo instance">>
          /\ Global("f").t = "Instance"
          /\ Global("f").class.name = "Foo"
          /\ Global("g") = Global("f")
          /\ interp.fields[Global("f").fields]["x"] = NumberV(1, 0)
    /\ (source = SrcInitArg /\ Ended) =>
          /\ pc = "returned"
          /\ interp.out = <<"3", "4">>

InitYieldsInstanceReached ==
    /\ source = SrcInitReturn
    /\ pc = "returned"
    /\ \E i \in Events("Yielded") : interp.log[i].s = "init"
    /\ \E i \in Events("Yielded") : interp.log[i].s = "Class" /\ interp.log[i].a = 2
    /\ Cardinality(Events("Caught")) = 3

\* C7: a run returns 65, having executed no statement (nothing printed, the
\* environments as Interpreter::new made them), when the scanner, the parser
\* or the resolver reported an error; it returns 70 exactly when interpret
\* raised a runtime error; otherwise it returns 0.
ExitCodes ==
    pc = "returned" =>
        /\ (scan_error \/ parse_error \/ res_error) =>
              /\ code = 65
              /\ interp.out = <<>>
              /\ interp.envs = Interpreter_new(interp.clock).envs
              /\ interp.fields = <<>>
              /\ next_stmt = 1
        /\ (code = 70) <=> (result.k = "RuntimeError")
        /\ (~(scan_error \/ parse_error \/ res_error) /\ result.k # "RuntimeError") =>
              code = 0

ExitCodesReached ==
    /\ pc = "returned"
    /\ code = 70
    /\ result.k = "RuntimeError"
    /\ interp.out # <<>>

\* C8, as stated: when the callee is neither a Callable nor a Class, no
\* argument has been evaluated when the error is raised, so in SrcNotCallable
\* x keeps the value 0.
NotCallableBeforeArguments ==
    /\ \A i \in Events("Callee") :
          interp.log[i].s \notin {"Callable", "Class"} => interp.log[i].b = 0
    /\ (source = SrcNotCallable /\ Ended) => Global("x") = NumberV(0, 0)

\* C8, amended: when the callee is neither a Callable nor a Class, the error
\* "Can only call functions and classes." is raised after every argument has
\* been evaluated, so the side effects of the arguments have occurred: in
\* SrcNotCallable x is 2 when the run returns 70.
NotCallableAfterArguments ==
    /\ \A i \in Events("Callee") :
          interp.log[i].s \notin {"Callable", "Class"} =>
              /\ interp.log[i].b = interp.log[i].c
              /\ Ended
              /\ result.k = "RuntimeError"
              /\ result.msg = "Can only call functions and classes."
    /\ (source = SrcNotCallable /\ Ended) =>
          /\ pc = "returned" => code = 70
          /\ result.msg = "Can only call functions and classes."
          /\ Global("x") = NumberV(2, 0)
          /\ interp.out = <<>>

NotCallableReached ==
    /\ source = SrcNotCallable
    /\ pc = "returned"
    /\ \E i \in Events("Callee") :
          interp.log[i].s = "String" /\ interp.log[i].b = 2

\* C9: a call of a function or a class with a number of arguments other than
\* its arity raises "Expected N arguments but got M." and nothing runs once
\* the arity is compared: no call is entered, no instance is created, nothing
\* is printed.
\* The arity of a class is that of its own or inherited init, else 0.
ArityMismatch ==
    /\ \A i \in Events("Arity") :
          /\ interp.log[i].b # interp.log[i].c
          /\ Ended
          /\ result.k = "RuntimeError"
          /\ result.msg = ExpectedArguments(interp.log[i].c, interp.log[i].b)
          /\ interp.calls = interp.log[i].calls
          /\ Len(interp.fields) = interp.log[i].fields
          /\ Len(interp.out) = interp.log[i].out
    /\ (source = SrcArity /\ Ended) =>
          /\ result.msg = "Expected 1 arguments but got 0."
          /\ interp.out = <<"1">>
    /\ (source = SrcClassArity /\ Ended) =>
          /\ result.msg = "Expected 1 arguments but got 0."
          /\ interp.out = <<>>
          /\ interp.fields = <<>>
    /\ (source = SrcInheritedArity /\ Ended) =>
          /\ result.msg = "Expected 1 arguments but got 2."
          /\ interp.out = <<"1">>
          /\ Len(interp.fields) = 1
    /\ (source = SrcNoInitArity /\ Ended) =>
          /\ result.msg = "Expected 0 arguments but got 1."
          /\ interp.out = <<"C instance">>
          /\ Len(interp.fields) = 1

ArityMismatchReached ==
    /\ source = SrcInheritedArity
    /\ pc = "returned"
    /\ code = 70
    /\ \E i \in Events("Arity") : interp.log[i].s = "Class" /\ interp.log[i].b = 2

\* C10: the parser turns the class declaration of SrcBagel into a Class
\* statement without reporting an error, and the run prints crunch and
\* returns 0.
ParserAcceptsClass ==
    source = SrcBagel =>
        /\ pc = "parsed" => (~parse_error /\ Len(stmts) = 2 /\ stmts[1].s = "Class")
        /\ pc = "returned" => (code = 0 /\ interp.out = <<"crunch">>)

\* C11: a Super expression that is evaluated has a recorded depth, so no run
\* stops in a panic on it; in SrcSuperCall B().f() runs the f of A bound to
\* the instance and then goes on in the f of B: the run prints A then B and
\* returns 0.
SuperCallsSuperclassMethod ==
    source = SrcSuperCall =>
        /\ pc # "panicked"
        /\ pc = "returned" => (code = 0 /\ interp.out = <<"A", "B">>)

\* C12: an assignment whose left-hand side is a Get becomes a Set: the parser
\* accepts SrcSetField and its second statement is the Set of x on p.
AssignmentToGetIsSet ==
    (source = SrcSetField /\ pc = "parsed") =>
        /\ ~parse_error
        /\ Len(stmts) = 2
        /\ stmts[2].s = "Expression"
        /\ stmts[2].expr.e = "Set"

\* C13: for every token list ending in Eof the loop of parse comes to its
\* end: every turn of the loop consumes at least one token and stays before
\* the Eof, so there are at most as many turns as tokens, and each turn adds
\* one statement to the list handed over; a turn whose declaration failed
\* yields Null with the error bit set and leaves the parser just past a
\* semicolon, or at one of class, fun, var, for, if, while, print, return, or
\* at Eof.
ParseTerminatesSynchronized ==
    [][ParseDeclaration =>
          /\ parser'.current > parser.current
          /\ parser'.current < Len(tokens)
          /\ Len(stmts') = Len(stmts) + 1
          /\ stmts'[Len(stmts')] = NullS =>
                /\ parser'.has_error
                /\ \/ previous(parser').type = "Semicolon"
                   \/ Parser_peek(parser').type \in SyncKeywords
                   \/ Parser_is_at_end(parser')]_vars

ParseSynchronizedReached ==
    /\ pc = "parsed"
    /\ parse_error
    /\ Len(stmts) = 2
    /\ stmts[1] = NullS
    /\ stmts[2] # NullS
    /\ Parser_is_at_end(parser)



\* the character the scanner is at
Current == CharAt(scanner.source, scanner.chars_current)

\* C14: scan_tokens comes to its end for every source: every turn of its
\* loop moves forward in the source and not past its end; the list it hands
\* over ends in Eof and holds no other Eof; a turn at a character that
\* starts no token (@ among SourceChars) sets the error bit, adds no token
\* and leaves the scanner at the character that follows.
ScanTerminatesWithEof ==
    [][/\ ScanToken =>
           /\ scanner'.source_current > scanner.source_current
           /\ scanner'.source_current <= ByteLen(source)
           /\ Current = "@" =>
                 /\ scanner'.has_error
                 /\ scanner'.tokens = scanner.tokens
                 /\ scanner'.chars_current = scanner.chars_current + 1
       /\ ScanEof =>
           /\ tokens' # <<>>
           /\ \A i \in 1..Len(tokens') :
                 tokens'[i].type = "Eof" <=> i = Len(tokens')]_vars

ScanContinuedReached ==
    /\ pc = "parse"
    /\ source = "@a@1"
    /\ scan_error
    /\ Len(tokens) = 3
    /\ tokens[1].lexeme = "a"
    /\ tokens[2].lexeme = "1"

\* whether a double quote follows the one the scanner is at
Terminated ==
    \E i \in (scanner.chars_current + 2)..Len(source) : SubSeq(source, i, i) = "\""

\* the token a turn of the scanner has just pushed
Pushed == scanner'.tokens[Len(scanner'.tokens)]

\* C15 as stated: the lexeme of the token of a terminated string literal is
\* the text between the quotes, the quotes left out.
StringLexemeExcludesQuotes ==
    [][(ScanToken /\ Current = "\"" /\ Terminated) =>
          /\ Len(scanner'.tokens) = Len(scanner.tokens) + 1
          /\ Pushed.type = "StringLiteral"
          /\ Pushed.lexeme = Pushed.literal.s]_vars

\* C15: the token of a terminated string literal carries the text between
\* the quotes as its literal, and its lexeme is the slice of the source from
\* the opening quote to the closing quote, both included; an unterminated
\* string pushes no token and sets the error bit.
StringLexemeKeepsQuotes ==
    [][(ScanToken /\ Current = "\"") =>
          IF Terminated
          THEN /\ Len(scanner'.tokens) = Len(scanner.tokens) + 1
               /\ Pushed.type = "StringLiteral"
               /\ Pushed.lexeme = "\"" \o Pushed.literal.s \o "\""
               /\ Pushed.lexeme = Slice(source, scanner.source_current,
                                        scanner'.source_current)
               /\ scanner'.has_error = scanner.has_error
          ELSE /\ scanner'.tokens = scanner.tokens
               /\ scanner'.has_error]_vars

StringScannedReached ==
    /\ pc = "parse"
    /\ source = "\"a1\""
    /\ ~scan_error
    /\ Len(tokens) = 2
    /\ tokens[1].type = "StringLiteral"
    /\ tokens[1].literal = StringV("a1")

\* the lexemes of the tokens from the i-th on, a space between neighbours
RECURSIVE JoinLexemes(_, _)
JoinLexemes(toks, i) ==
    IF i > Len(toks) THEN ""
    ELSE IF i = Len(toks) THEN toks[i].lexeme
    ELSE toks[i].lexeme \o " " \o JoinLexemes(toks, i + 1)

\* the kinds, with what they carry, and the lexemes of a token list
KindsAndLexemes(toks) ==
    [i \in 1..Len(toks) |-> <<toks[i].type, toks[i].literal, toks[i].lexeme>>]

\* C16: for a source scanned without error, the lexemes of its tokens joined
\* by single spaces scan without error to tokens of the same kinds and
\* lexemes, in the same order.
ScanRoundTrip ==
    (pc = "parse" /\ ~scan_error) =>
        LET again == scan_tokens(Scanner_new(JoinLexemes(tokens, 1)))
        IN /\ ~again.has_error
           /\ KindsAndLexemes(again.tokens) = KindsAndLexemes(tokens)

ScanRoundTripReached ==
    /\ pc = "parse"
    /\ ~scan_error
    /\ source = "\"a\"1"
    /\ JoinLexemes(tokens, 1) = "\"a\" 1 "
    /\ Len(tokens) = 3

\* C17: a second run of the resolver over the same tree with the same
\* interpreter leaves the locals as the first run left them, the same
\* expressions with the same depths, and reports the same error bit.
ResolveTwiceSame ==
    [][ResolveAgain =>
          /\ interp'.locals = interp.locals
          /\ interp' = interp
          /\ res_error' = res_error]_vars

ResolveTwiceReached ==
    /\ pc = "resolved again"
    /\ source = SrcCounter
    /\ ~res_error
    /\ Cardinality(DOMAIN interp.locals) >= 2
    /\ \E id \in DOMAIN interp.locals : interp.locals[id] >= 1

\* whether statement st, read in a function of kind ftype (NONE outside any
\* function), holds a return outside any function or a return with a value
\* that belongs to a method init
RECURSIVE RejectedReturn(_, _)
RejectedReturn(st, ftype) ==
    CASE st.s = "Return" ->
            ftype = "NONE" \/ (ftype = "INITIALIZER" /\ st.value # <<>>)
      [] st.s = "Block" ->
            \E i \in 1..Len(st.stmts) : RejectedReturn(st.stmts[i], ftype)
      [] st.s = "If" ->
            \/ RejectedReturn(st.then, ftype)
            \/ \E i \in 1..Len(st.else) : RejectedReturn(st.else[i], ftype)
      [] st.s = "While" -> RejectedReturn(st.body, ftype)
      [] st.s = "Function" ->
            \E i \in 1..Len(st.body) : RejectedReturn(st.body[i], "FUNCTION")
      [] st.s = "Class" ->
            \E m \in 1..Len(st.methods) : \E i \in 1..Len(st.methods[m].body) :
                RejectedReturn(st.methods[m].body[i],
                               IF st.methods[m].name.lexeme = "init"
                               THEN "INITIALIZER" ELSE "METHOD")
      [] OTHER -> FALSE

\* C18: once the resolver has run, its error bit is set for every program
\* holding a return outside any function, however deep in blocks, ifs and
\* loops, or a return with a value in a method init; the bare return of the
\* init of SrcInitReturn, the returns of the function nested in the init of
\* SrcInitNestedFun and the return of the method of SrcMethodReturn are
\* accepted.
ReturnsChecked ==
    pc # "parsed" =>
        /\ (\E i \in 1..Len(stmts) : RejectedReturn(stmts[i], "NONE")) => res_error
        /\ source \in {SrcInitReturn, SrcInitNestedFun, SrcMethodReturn} => ~res_error

ReturnsCheckedReached ==
    /\ pc = "returned"
    /\ source = SrcReturnNested
    /\ res_error
    /\ code = 65
    /\ interp.out = <<>>

\* C19: once the resolver has run, its error bit is set when the initializer
\* of a local variable reads that variable (SrcOwnInit), when a local scope
\* declares a name twice (SrcDuplicateLocal) and when the body of a function
\* declares one of its parameters again (SrcParamRedeclared); declaring a
\* global twice and reading it in its own initializer (SrcGlobalRedeclare)
\* and shadowing a local in an inner block (SrcShadowLocal) set no error.
DeclarationsChecked ==
    pc # "parsed" =>
        /\ source \in {SrcOwnInit, SrcDuplicateLocal, SrcParamRedeclared} => res_error
        /\ source \in {SrcGlobalRedeclare, SrcShadowLocal} => ~res_error
        /\ (source = SrcGlobalRedeclare /\ pc = "returned") =>
              (code = 0 /\ interp.out = <<"1">>)

DeclarationsCheckedReached ==
    /\ pc = "returned"
    /\ source = SrcParamRedeclared
    /\ res_error
    /\ code = 65
    /\ interp.calls = 0

\* C20: once the resolver has run, its error bit is set for the class of
\* SrcSelfInherit, which names itself as its superclass, for the super
\* outside any class of SrcSuperOutside and for the super in a class
\* declared without a superclass of SrcSuperNoSuperclass.
SuperMisuseRejected ==
    (pc # "parsed" /\ source \in {SrcSelfInherit, SrcSuperOutside, SrcSuperNoSuperclass})
        => res_error

\* C21: reading a property of an instance gives the field of that name when
\* the instance has one, whatever methods its class chain has; with no such
\* field it gives the method found on the class chain, bound to the
\* instance; with neither it raises Undefined property and the field maps
\* are as before.  SrcFieldShadows prints super, field and 7 and ends in the
\* error for q.
FieldsShadowMethods ==
    /\ \A i \in Events("Get") :
          /\ interp.log[i].b = 2 => interp.log[i].s = "Field" /\ interp.log[i].c = 1
          /\ interp.log[i].b = 1 => interp.log[i].s = "Method" /\ interp.log[i].c = 1
          /\ interp.log[i].b = 0 => interp.log[i].s = "Undefined" /\ interp.log[i].c = 1
    /\ (source = SrcFieldShadows /\ pc = "returned") =>
          /\ code = 70
          /\ interp.out = <<"super", "field", "7">>
          /\ result.msg = "Undefined property 'q'."

FieldsShadowMethodsReached ==
    /\ source = SrcFieldShadows
    /\ pc = "returned"
    /\ \A had \in 0..2 : \E i \in Events("Get") : interp.log[i].b = had

\* C22: a Logical expression whose left operand decides it, a truthy left
\* of or, a nil or false left of and, yields the left value and evaluates
\* nothing more: the state is the one the left operand left behind; in the
\* other cases the right operand is evaluated and its value is the result,
\* as it is and not as a Bool.  In SrcShortCircuit f is called by 1 and f()
\* and by nil or f() only.
ShortCircuit ==
    /\ \A i \in Events("Logical") :
          LET decided == \/ interp.log[i].s = "Or" /\ interp.log[i].b = 1
                         \/ interp.log[i].s = "And" /\ interp.log[i].b = 0
          IN /\ decided => interp.log[i].c = 1
             /\ (~decided /\ source = SrcShortCircuit) => interp.log[i].c = 0
    /\ (source = SrcShortCircuit /\ pc = "returned") =>
          /\ code = 0
          /\ interp.out = <<"x", "false", "0", "1", "2", "2">>
          /\ interp.calls = 2

ShortCircuitReached ==
    /\ source = SrcShortCircuit
    /\ pc = "returned"
    /\ Cardinality(Events("Logical")) = 5
    /\ \A op \in {"Or", "And"} : \A c \in {0, 1} :
          \E i \in Events("Logical") : interp.log[i].s = op /\ interp.log[i].c = c

\* the frames of the chain of frame e, nearest first
RECURSIVE Chain(_, _)
Chain(envs, e) == IF e = 0 THEN <<>> ELSE <<e>> \o Chain(envs, envs[e].enclosing)

\* the positions in the chain of result.e, before the operation, of the
\* frames that bound result.name
Holders ==
    LET chain == Chain(result.before, result.e)
    IN {i \in 1..Len(chain) : Has(result.before[chain[i]].values, result.name)}

\* the frames are those before the operation but for result.name in frame f,
\* which is bound to the value assigned
OnlyWritten(f) ==
    /\ Len(interp.envs) = Len(result.before)
    /\ \A g \in 1..Len(interp.envs) :
          /\ interp.envs[g].enclosing = result.before[g].enclosing
          /\ DOMAIN interp.envs[g].values
               = DOMAIN result.before[g].values \cup (IF g = f THEN {result.name} ELSE {})
          /\ \A n \in DOMAIN interp.envs[g].values :
                interp.envs[g].values[n]
                  = IF g = f /\ n = result.name THEN Assigned
                    ELSE result.before[g].values[n]

\* C23: assign, on any frame and through an Assign expression without a
\* recorded depth, overwrites the name in the nearest frame of the chain
\* that has it and changes nothing else; when no frame of the chain has the
\* name the error is Undefined variable '<name>'. and every frame is as it
\* was.
AssignNearestOrError ==
    (pc = "done" /\ result.op \in {"assign", "assign global"}) =>
        LET chain == Chain(result.before, result.e)
        IN IF Holders # {}
           THEN /\ result.k = "Ok"
                /\ OnlyWritten(chain[CHOOSE i \in Holders : \A j \in Holders : i <= j])
           ELSE /\ result.k = "RuntimeError"
                /\ result.msg = "Undefined variable '" \o result.name \o "'."
                /\ interp.envs = result.before

AssignNearestReached ==
    /\ pc = "done"
    /\ result.op = "assign"
    /\ result.e = 3
    /\ Holders = {2, 3}
    /\ interp.envs[2].values[result.name] = Assigned

\* C24: get_at gives the value the name has in the frame exactly dist links
\* up from the frame it is called on, whatever the nearer and the farther
\* frames bind the name to, and changes no frame; assign_at, called directly
\* or for an Assign expression with a recorded depth, writes the name in that
\* frame and changes nothing else.
AtExactDepth ==
    pc = "done" =>
        LET chain == Chain(result.before, result.e)
            f == chain[result.dist + 1]
        IN /\ result.op = "get_at" =>
                 /\ result.k = "Ok"
                 /\ result.v = result.before[f].values[result.name]
                 /\ result.v = NumberV(result.e - result.dist, 0)
                 /\ interp.envs = result.before
           /\ result.op \in {"assign_at", "assign local"} =>
                 /\ result.k = "Ok"
                 /\ f = result.e - result.dist
                 /\ OnlyWritten(f)

AtExactDepthReached ==
    /\ pc = "done"
    /\ result.op = "get_at"
    /\ result.e = 3
    /\ result.dist = 1
    /\ Holders = {1, 2, 3}
    /\ result.v = NumberV(2, 0)

\* the kinds of the nodes of a statement, as a string
RECURSIVE Shape(_), Shapes(_, _)
Shape(n) ==
    CASE n.s = "Block" -> "Block[" \o Shapes(n.stmts, 1) \o "]"
      [] n.s = "Function" -> "Function[" \o Shapes(n.body, 1) \o "]"
      [] n.s = "While" ->
            "While(" \o (IF n.cond.e = "Literal" /\ n.cond.value = BoolV(TRUE)
                         THEN "true" ELSE n.cond.e) \o ", " \o Shape(n.body) \o ")"
      [] n.s = "Var" -> "Var " \o n.name.lexeme
      [] n.s = "Expression" -> "Expression(" \o n.expr.e \o ")"
      [] OTHER -> n.s

Shapes(ss, i) ==
    IF i > Len(ss) THEN ""
    ELSE Shape(ss[i]) \o (IF i < Len(ss) THEN ", " ELSE "") \o Shapes(ss, i + 1)

\* C25: a for statement is parsed into Block[init, While(cond, Block[body,
\* incr])], with Null for a missing initializer and the literal true for a
\* missing condition; run, the initializer is executed once, in a scope that
\* the statement after the loop is outside of, and the increment after the
\* body each time round.
ForDesugared ==
    /\ (stmts # <<>> /\ source \in {SrcFor, SrcForScope}) =>
          Shape(stmts[1]) = "Block[Var i, While(Binary, Block[Print, Expression(Assign)])]"
    /\ (stmts # <<>> /\ source = SrcForNoInit) =>
          Shape(stmts[2]) = "Block[Null, While(Binary, Block[Print, Expression(Assign)])]"
    /\ (stmts # <<>> /\ source = SrcForBare) =>
          Shape(stmts[1]) = "Function[Block[Null, While(true, Return)]]"
    /\ (stmts # <<>> /\ source = SrcForOwn) =>
          Shape(stmts[1]) = "Block[Var i, While(true, Print)]"
    /\ pc = "returned" =>
          /\ source = SrcFor => code = 0 /\ interp.out = <<"0", "1", "2">>
          /\ source = SrcForScope =>
                /\ code = 70 /\ interp.out = <<"0", "1">>
                /\ result.msg = "Undefined variable 'i'."
          /\ source = SrcForNoInit => code = 0 /\ interp.out = <<"0", "1", "2">>
          /\ source = SrcForBare => code = 0 /\ interp.out = <<"1">>
          /\ source = SrcForOwn => code = 65 /\ res_error /\ interp.out = <<>>

ForDesugaredReached ==
    /\ source = SrcForScope
    /\ pc = "returned"
    /\ Len(interp.out) = 2
    /\ Shape(stmts[1]) = "Block[Var i, While(Binary, Block[Print, Expression(Assign)])]"

\* the lines that define the global a first of all
Defining == {ReplDefine, ReplError, ReplCall, SrcReplInit, SrcReplClass, SrcReplMethod}

\* the last observation of a kind, 0 when there is none
Last(kind) == IF Events(kind) = {} THEN 0 ELSE CHOOSE i \in Events(kind) : \A j \in Events(kind) : j <= i

\* C26: whenever interpret has returned, with Ok or with a runtime error
\* raised inside blocks, loops, calls, initializers and methods, and when
\* the next line starts, the current frame is the globals; a line after one
\* that defined the global a finds it, whatever the earlier line ended with.
ReturnsToGlobals ==
    /\ (pc \in {"returned", "scan", "parse", "parsed"}
         \/ (pc = "raised" /\ result.k = "RuntimeError")
         \/ (pc = "interpret" /\ next_stmt > Len(stmts))) =>
            /\ interp.env = interp.globals
            /\ interp.envs[interp.globals].enclosing = 0
    /\ (\E i \in Events("Line") : interp.log[i].s \in Defining /\ i < Last("Line")) =>
            Global("a") = NumberV(1, 0)
    /\ (pc = "returned" /\ source = ReplPrint) =>
            IF Has(interp.envs[interp.globals].values, "a")
            THEN /\ code = 0
                 /\ SubSeq(interp.out, Len(interp.out) - 1, Len(interp.out)) = <<"1", "4">>
            ELSE /\ code = 70
                 /\ result.msg = "Undefined variable 'a'."

ReturnsToGlobalsReached ==
    /\ pc = "returned"
    /\ source = ReplPrint
    /\ interp.log[1].s = SrcReplInit
    /\ interp.out = <<"1", "4">>
    /\ Len(interp.envs) > 1

\* what the resolver records for the trees of the line being run
RecordedNow ==
    DOMAIN Resolver_resolve(stmts, 1,
                            Resolver_new([interp EXCEPT !.locals = EmptyMap])).interpreter.locals

\* C27: a recorded depth is used for an expression of the line being run
\* only if the resolver recorded it for that line: an entry of locals left
\* by an earlier line, whose trees are gone, is not applied to a node of a
\* later line at the same address.
StaleLocalsNeverApplied ==
    \A i \in Events("Resolved") :
        LET parsed == interp.log[Last("Parsed")]
        IN (/\ i > Last("Parsed")
            /\ interp.log[i].a >= parsed.a
            /\ interp.log[i].a < parsed.b) => interp.log[i].a \in RecordedNow

\* C28: the this of a method read from an instance has the field map of
\* that instance: in SrcSharedFields a.set(1) writes x through this and b,
\* another reference to the instance, reads 1; b.x = 2 is read as 2 through
\* the this of m, the method a.get read before the write; c, made by
\* another call of the class, has a field map of its own.
ThisSharesFields ==
    /\ \A i \in Events("Get") :
          (interp.log[i].b = 1 /\ interp.log[i].s = "Method") => interp.log[i].c = 1
    /\ (source = SrcSharedFields /\ pc = "returned") =>
          /\ code = 0
          /\ interp.out = <<"1", "2", "2", "9">>
          /\ Global("a") = Global("b")
          /\ Global("c").t = "Instance"
          /\ Global("c").fields # Global("a").fields
          /\ LET this == Env_get_at(interp.envs, Global("m").fn.closure, 0, Ident("this"))
             IN this.ok /\ this.v = Global("a")
          /\ interp.fields[Global("a").fields] = [x \in {"x"} |-> NumberV(2, 0)]
          /\ interp.fields[Global("c").fields] = [x \in {"x"} |-> NumberV(9, 0)]
          /\ Len(interp.fields) = 2

ThisSharesFieldsReached ==
    /\ source = SrcSharedFields
    /\ pc = "returned"
    /\ Len(interp.out) = 4
    /\ Cardinality({i \in Events("Get") : interp.log[i].s = "Method"}) = 2

\* the values the globals hold
GlobalValues == {Global(n) : n \in DOMAIN interp.envs[interp.globals].values}

\* C29: == on two instances is false, also on an instance and itself, and
\* != true; two functions, or two classes, that are not the same but are
\* displayed with the same name are equal, those of different names are not.
InstancesNeverEqual ==
    /\ \A v, w \in GlobalValues :
          /\ (v.t = "Instance" /\ w.t = "Instance") => ~ValueEq(v, w)
          /\ (v.t = "Class" /\ w.t = "Class") =>
                (ValueEq(v, w) <=> v.class.name = w.class.name)
          /\ (v.t = "Callable" /\ w.t = "Callable" /\ ~v.fn.native /\ ~w.fn.native) =>
                (ValueEq(v, w) <=> v.fn.id.lexeme = w.fn.id.lexeme)
    /\ (source = SrcInstanceEq /\ pc = "returned") =>
          /\ code = 0
          /\ interp.out = <<"false", "true", "false", "false", "true", "true", "false",
                            "false">>
          /\ Global("x") = Global("y")
          /\ Global("k") # Global("A")
          /\ Global("g") # Global("f")

InstancesNeverEqualReached ==
    /\ source = SrcInstanceEq
    /\ pc = "returned"
    /\ Len(interp.out) = 8
    /\ Global("x").t = "Instance"
    /\ Global("k").class.name = Global("A").class.name
    /\ Global("g").fn.id = Global("f").fn.id
    /\ Global("g").fn.body # Global("f").fn.body

====
